---------------------------- MODULE Spec2Model ----------------------------
(***************************************************************************)
(* tracie (.gitlab-ci/tracie/tracie.py): the trace-replay regression       *)
(* harness.  One process runs main() -> run(): it loads a manifest, walks  *)
(* the traces and their expectations in order, checks every expectation   *)
(* of the requested device with gitlab_check_trace, writes results.yml    *)
(* and exits with a status derived from the overall result.                *)
(*                                                                         *)
(* File names are sequences of path components; the file system is a       *)
(* function from the names of the existing files to their content.        *)
(***************************************************************************)
EXTENDS Naturals, Integers, Sequences, FiniteSets, TLC

(***************************************************************************)
(* Bounds of the model                                                     *)
(***************************************************************************)
MaxTraces == 2
MaxExpectations == 1
MaxRuns == 2
MaxServoRuns == 3
MaxLogLines == 6
MaxRows == 2

(***************************************************************************)
(* Program constants and the sets the inputs are drawn from                *)
(***************************************************************************)
TRACES_DB_PATH == <<"traces-db">>
RESULTS_PATH == <<"results">>
RESULTS_YML == RESULTS_PATH \o <<"results.yml">>

None == "None"
DownloadUrl == "https://traces.example/"

Paths == { <<"trace1", "magenta.testtrace">>, <<"trace2", "olive.testtrace">> }
Devices == {"gl-test-device", "vk-test-device"}
Checksums == {"5efda83854befe01", "8e0a801367e17144"}
Pixels == {"magenta", "olive"}

\* The values an environment variable of the process can have.
EnvValues == {"0", "1"}
EnvVars == {"TRACIE_STORE_IMAGES", "TRACIE_UPLOAD_TO_MINIO"}

SeqsUpTo(S, n) == UNION { [1..k -> S] : k \in 0..n }

Expectation == [device : Devices, checksum : Checksums]
Trace == [path : Paths, expectations : SeqsUpTo(Expectation, MaxExpectations)]

(***************************************************************************)
(* Python helpers                                                          *)
(***************************************************************************)
\* os.path.split: (everything before the last component, the last component)
os_path_split(p) == <<SubSeq(p, 1, Len(p) - 1), p[Len(p)]>>

\* os.path.join of two relative paths
os_path_join(a, b) == a \o b

\* os.path.exists
os_path_exists(fs, f) == f \in DOMAIN fs

\* open(f, "wb").write(content): creates or overwrites f
write_file(fs, f, content) ==
    [x \in DOMAIN fs \cup {f} |-> IF x = f THEN content ELSE fs[x]]

\* mutant of shutil_move: shutil.copy(src, dst), src stays
shutil_copy(fs, src, dst) ==
    [x \in DOMAIN fs \cup {dst} |-> IF x = dst THEN fs[src] ELSE fs[x]]

\* shutil.move(src, dst) of a file: dst is created or replaced, src is gone
shutil_move(fs, src, dst) ==
    [x \in (DOMAIN fs \cup {dst}) \ ({src} \ {dst}) |->
        IF x = dst THEN fs[src] ELSE fs[x]]

\* mutant of dict_update: a key already present keeps its value (setdefault)
dict_update_keep_first(d, other) ==
    [k \in DOMAIN d \cup DOMAIN other |->
        IF k \in DOMAIN d THEN d[k] ELSE other[k]]

\* mutant of dict_update: results = result, the dict is replaced
dict_replaced_by(d, other) == other

\* dict.update(other)
dict_update(d, other) ==
    [k \in DOMAIN d \cup DOMAIN other |->
        IF k \in DOMAIN other THEN other[k] ELSE d[k]]

\* d[k] = v on a dict
dict_set(d, k, v) == [x \in DOMAIN d \cup {k} |-> IF x = k THEN v ELSE d[x]]

\* mutant of environ_get: a variable that is not set reads as '1'
environ_get_unset_is_one(environ, name, default) ==
    IF name \in DOMAIN environ THEN environ[name] ELSE "1"

\* os.environ.get(name, default)
environ_get(environ, name, default) ==
    IF name \in DOMAIN environ THEN environ[name] ELSE default

\* hashlib.md5(Image.open(image_file).tobytes()).hexdigest()
md5_hexdigest(pixels) ==
    CASE pixels = "magenta" -> "8e0a801367e17144"
      [] pixels = "olive"   -> "5efda83854befe01"


(***************************************************************************)
(* The replay tool (dump_trace_images.dump_from_trace) is an external      *)
(* collaborator: what a call leaves behind is drawn from DumpOutcomes.    *)
(* A failing call renders no image; any call has written a log, or not,   *)
(* and a call that reports success has rendered an image, or not.          *)
(***************************************************************************)
NoImage == "none"
CallNumbers == {"0"}

DumpOutcomes ==
    { d \in [success : BOOLEAN, image : Pixels \cup {NoImage}, log : BOOLEAN] :
        ~d.success => d.image = NoImage }

\* No call of the replay tool.
NoDump == [success |-> FALSE, image |-> NoImage, log |-> FALSE]

\* The per-device directory the replay tool writes into and replay() globs.
test_dir(trace_path, device_name) ==
    os_path_split(trace_path)[1] \o <<"test", device_name>>

image_names(file_name) == { file_name \o "-" \o c \o ".png" : c \in CallNumbers }
log_names(file_name) == { file_name \o ".log" }

dump_from_trace(fs, trace_path, device_name, d) ==
    LET dir == test_dir(trace_path, device_name)
        file_name == os_path_split(trace_path)[2]
        png == dir \o <<file_name \o "-0.png">>
        log == dir \o <<file_name \o ".log">>
        fs1 == IF d.image # NoImage THEN write_file(fs, png, d.image) ELSE fs
        fs2 == IF d.log THEN write_file(fs1, log, "log") ELSE fs1
    IN [success |-> d.success, fs |-> fs2]

\* glob.glob(dir / pattern): the existing files of dir whose name matches
glob(fs, dir, names) ==
    { f \in DOMAIN fs : os_path_split(f)[1] = dir /\ os_path_split(f)[2] \in names }

(***************************************************************************)
(* I/O events, for the claims about what was (not) done and in what order  *)
(***************************************************************************)
Event(op, file) == [op |-> op, file |-> file]

(***************************************************************************)
(* replay(trace_path, device_name)                                         *)
(***************************************************************************)
\* mutant of replay: the files found decide, not what the replay tool reports
replay_trusts_files(fs, trace_path, device_name, d) ==
    LET dumped == dump_from_trace(fs, trace_path, device_name, d)
        dir == test_dir(trace_path, device_name)
        file_name == os_path_split(trace_path)[2]
        images == glob(dumped.fs, dir, image_names(file_name))
        logs == glob(dumped.fs, dir, log_names(file_name))
        image_file == CHOOSE f \in images : TRUE
        log_file == CHOOSE f \in logs : TRUE
        io == <<Event("dump", trace_path)>>
    IN IF images = {} \/ logs = {}
       THEN [raised |-> FALSE, checksum |-> None, image_file |-> <<>>,
             log_file |-> <<>>, fs |-> dumped.fs, io |-> io]
       ELSE [raised |-> FALSE, checksum |-> md5_hexdigest(dumped.fs[image_file]),
             image_file |-> image_file, log_file |-> log_file,
             fs |-> dumped.fs, io |-> io]

replay(fs, trace_path, device_name, d) ==
    LET dumped == dump_from_trace(fs, trace_path, device_name, d)
        dir == test_dir(trace_path, device_name)
        file_name == os_path_split(trace_path)[2]
        images == glob(dumped.fs, dir, image_names(file_name))
        logs == glob(dumped.fs, dir, log_names(file_name))
        image_file == CHOOSE f \in images : TRUE
        log_file == CHOOSE f \in logs : TRUE
        io == <<Event("dump", trace_path)>>
    IN IF ~dumped.success
       THEN [raised |-> FALSE, checksum |-> None, image_file |-> <<>>,
             log_file |-> <<>>, fs |-> dumped.fs, io |-> io]
       ELSE IF images = {} \/ logs = {}
       THEN \* assert(files) fails: AssertionError
            [raised |-> TRUE, checksum |-> None, image_file |-> <<>>,
             log_file |-> <<>>, fs |-> dumped.fs, io |-> io]
       ELSE [raised |-> FALSE, checksum |-> md5_hexdigest(dumped.fs[image_file]),
             image_file |-> image_file, log_file |-> log_file,
             fs |-> dumped.fs, io |-> io]

(***************************************************************************)
(* gitlab_ensure_trace(project_url, trace)                                 *)
(***************************************************************************)
\* mutant of gitlab_ensure_trace: a missing trace is reported, the call returns
gitlab_ensure_trace_returns_when_missing(fs, project_url, trace) ==
    LET trace_path == TRACES_DB_PATH \o trace.path
    IN IF project_url = None \/ os_path_exists(fs, trace_path)
       THEN [exit |-> FALSE, fs |-> fs, io |-> <<>>]
       ELSE [exit |-> FALSE,
             fs |-> write_file(fs, trace_path, "downloaded"),
             io |-> <<Event("GET", trace_path)>>]

\* mutant of gitlab_ensure_trace: the trace is fetched whether it exists or not
gitlab_ensure_trace_always_fetches(fs, project_url, trace) ==
    LET trace_path == TRACES_DB_PATH \o trace.path
    IN IF project_url = None
       THEN [exit |-> ~os_path_exists(fs, trace_path), fs |-> fs, io |-> <<>>]
       ELSE [exit |-> FALSE,
             fs |-> write_file(fs, trace_path, "downloaded"),
             io |-> <<Event("GET", trace_path)>>]

\* The file the local trace store holds for a trace is "trace" when it was
\* there before the run and "downloaded" when requests.get fetched it.
gitlab_ensure_trace(fs, project_url, trace) ==
    LET trace_path == TRACES_DB_PATH \o trace.path
    IN IF project_url = None
       THEN IF ~os_path_exists(fs, trace_path)
            THEN [exit |-> TRUE, fs |-> fs, io |-> <<>>]
            ELSE [exit |-> FALSE, fs |-> fs, io |-> <<>>]
       ELSE IF os_path_exists(fs, trace_path)
            THEN [exit |-> FALSE, fs |-> fs, io |-> <<>>]
            ELSE [exit |-> FALSE,
                  fs |-> write_file(fs, trace_path, "downloaded"),
                  io |-> <<Event("GET", trace_path)>>]

(***************************************************************************)
(* upload_artifact(file_name, key, content_type): the PUT succeeds or the  *)
(* server answers with an error status and raise_for_status() raises.     *)
(***************************************************************************)
PutOutcomes == {"ok", "error"}

\* mutant of upload_artifact: the response's status is not looked at
upload_artifact_ignores_status(fs, file_name, key, put) ==
    IF ~os_path_exists(fs, file_name)
    THEN [raised |-> TRUE, io |-> <<>>]
    ELSE [raised |-> FALSE, io |-> <<Event("PUT", file_name)>>]

upload_artifact(fs, file_name, key, put) ==
    IF ~os_path_exists(fs, file_name)
    THEN [raised |-> TRUE, io |-> <<>>]
    ELSE [raised |-> put # "ok", io |-> <<Event("PUT", file_name)>>]

(***************************************************************************)
(* gitlab_check_trace(project_url, device_name, trace, expectation)        *)
(* ctl says how the call ends: "return" (ok, result), "exit" (sys.exit in  *)
(* gitlab_ensure_trace) or "raise" (an exception leaves the call).         *)
(***************************************************************************)
\* mutant of image_is_stored: the image is stored on request only
image_is_stored_on_request_only(environ, ok) ==
    environ_get(environ, "TRACIE_STORE_IMAGES", "0") = "1"

\* mutant of image_is_stored: TRACIE_STORE_IMAGES is ignored
image_is_stored_on_failure_only(environ, ok) == ~ok

\* mutant of image_is_stored: every rendered image is stored
image_is_stored_always(environ, ok) == TRUE

\* if not ok or os.environ.get('TRACIE_STORE_IMAGES', '0') == '1'
image_is_stored(environ, ok) ==
    ~ok \/ environ_get(environ, "TRACIE_STORE_IMAGES", "0") = "1"

\* mutant of image_is_uploaded: every rendered image is uploaded when enabled
image_is_uploaded_whenever_enabled(environ, ok) ==
    environ_get(environ, "TRACIE_UPLOAD_TO_MINIO", "0") = "1"

\* if not ok and os.environ.get('TRACIE_UPLOAD_TO_MINIO', '0') == '1'
image_is_uploaded(environ, ok) ==
    ~ok /\ environ_get(environ, "TRACIE_UPLOAD_TO_MINIO", "0") = "1"

\* elif checksum == expectation['checksum']
checksums_match(checksum, expected) == checksum = expected

\* mutant of error_record: the replay's None is recorded as it is
error_record_with_none(record) == dict_set(record, "actual", None)

\* mutant of error_record: the early return leaves 'actual' out
error_record_without_actual(record) == record

\* result[trace['path']]['actual'] = 'error'
error_record(record) == dict_set(record, "actual", "error")

\* result[trace['path']]['actual'] = checksum
checked_record(record, checksum) == dict_set(record, "actual", checksum)

\* mutant of image_record: the image is stored but its path is not recorded
image_record_dropped(record, image) == record

\* result[trace['path']]['image'] = os.path.join(dir_in_results, image_name)
image_record(record, image) == dict_set(record, "image", image)

\* mutant of gitlab_check_trace: the image is moved first and uploaded from
\* the results tree
gitlab_check_trace_uploads_after_move(fs, environ, project_url, device_name, trace, expectation, d, put) ==
    LET ensured == gitlab_ensure_trace(fs, project_url, trace)
        result0 == dict_set(<<>>, "expected", expectation.checksum)
        trace_path == TRACES_DB_PATH \o trace.path
        played == replay(ensured.fs, trace_path, device_name, d)
        io1 == ensured.io \o played.io
        ok == checksums_match(played.checksum, expectation.checksum)
        trace_dir == os_path_split(trace.path)[1]
        dir_in_results == os_path_join(trace_dir, <<"test", device_name>>)
        results_path == os_path_join(RESULTS_PATH, dir_in_results)
        log_dst == os_path_join(results_path, <<os_path_split(played.log_file)[2]>>)
        fs_log == shutil_move(played.fs, played.log_file, log_dst)
        io2 == Append(io1, Event("move", log_dst))
        image_name == os_path_split(played.image_file)[2]
        image_dst == os_path_join(results_path, <<image_name>>)
        stored == image_is_stored(environ, ok)
        fs_img == IF stored
                  THEN shutil_move(fs_log, played.image_file, image_dst)
                  ELSE fs_log
        io3 == IF stored THEN Append(io2, Event("move", image_dst)) ELSE io2
        upload == IF image_is_uploaded(environ, ok)
                  THEN upload_artifact(fs_img, image_dst,
                                       <<"traces", played.checksum \o ".png">>, put)
                  ELSE [raised |-> FALSE, io |-> <<>>]
        io4 == io3 \o upload.io
        result1 == IF stored
                   THEN image_record(result0,
                                     os_path_join(dir_in_results, <<image_name>>))
                   ELSE result0
        result2 == checked_record(result1, played.checksum)
    IN IF ensured.exit
       THEN [ctl |-> "exit", ok |-> FALSE, result |-> <<>>,
             fs |-> ensured.fs, io |-> ensured.io, played |-> <<>>]
       ELSE IF played.raised
       THEN [ctl |-> "raise", ok |-> FALSE, result |-> <<>>,
             fs |-> played.fs, io |-> io1, played |-> played]
       ELSE IF played.checksum = None
       THEN [ctl |-> "return", ok |-> FALSE,
             result |-> dict_set(<<>>, trace.path, error_record(result0)),
             fs |-> played.fs, io |-> io1, played |-> played]
       ELSE IF upload.raised
       THEN [ctl |-> "raise", ok |-> FALSE, result |-> <<>>,
             fs |-> fs_img, io |-> io4, played |-> played]
       ELSE [ctl |-> "return", ok |-> ok,
             result |-> dict_set(<<>>, trace.path, result2),
             fs |-> fs_img, io |-> io4, played |-> played]

gitlab_check_trace(fs, environ, project_url, device_name, trace, expectation, d, put) ==
    LET ensured == gitlab_ensure_trace(fs, project_url, trace)
        result0 == dict_set(<<>>, "expected", expectation.checksum)
        trace_path == TRACES_DB_PATH \o trace.path
        played == replay(ensured.fs, trace_path, device_name, d)
        io1 == ensured.io \o played.io
        ok == checksums_match(played.checksum, expectation.checksum)
        trace_dir == os_path_split(trace.path)[1]
        dir_in_results == os_path_join(trace_dir, <<"test", device_name>>)
        results_path == os_path_join(RESULTS_PATH, dir_in_results)
        log_dst == os_path_join(results_path, <<os_path_split(played.log_file)[2]>>)
        fs_log == shutil_move(played.fs, played.log_file, log_dst)
        io2 == Append(io1, Event("move", log_dst))
        upload == IF image_is_uploaded(environ, ok)
                  THEN upload_artifact(fs_log, played.image_file,
                                       <<"traces", played.checksum \o ".png">>, put)
                  ELSE [raised |-> FALSE, io |-> <<>>]
        io3 == io2 \o upload.io
        image_name == os_path_split(played.image_file)[2]
        image_dst == os_path_join(results_path, <<image_name>>)
        stored == image_is_stored(environ, ok)
        fs_img == IF stored
                  THEN shutil_move(fs_log, played.image_file, image_dst)
                  ELSE fs_log
        io4 == IF stored THEN Append(io3, Event("move", image_dst)) ELSE io3
        result1 == IF stored
                   THEN image_record(result0,
                                     os_path_join(dir_in_results, <<image_name>>))
                   ELSE result0
        result2 == checked_record(result1, played.checksum)
    IN IF ensured.exit
       THEN [ctl |-> "exit", ok |-> FALSE, result |-> <<>>,
             fs |-> ensured.fs, io |-> ensured.io, played |-> <<>>]
       ELSE IF played.raised
       THEN [ctl |-> "raise", ok |-> FALSE, result |-> <<>>,
             fs |-> played.fs, io |-> io1, played |-> played]
       ELSE IF played.checksum = None
       THEN [ctl |-> "return", ok |-> FALSE,
             result |-> dict_set(<<>>, trace.path, error_record(result0)),
             fs |-> played.fs, io |-> io1, played |-> played]
       ELSE IF upload.raised
       THEN [ctl |-> "raise", ok |-> FALSE, result |-> <<>>,
             fs |-> fs_log, io |-> io3, played |-> played]
       ELSE [ctl |-> "return", ok |-> ok,
             result |-> dict_set(<<>>, trace.path, result2),
             fs |-> fs_img, io |-> io4, played |-> played]

(***************************************************************************)
(* cros_servo_run (.gitlab-ci/bare-metal/cros_servo_run.py): boots a       *)
(* board over its EC and CPU serial consoles and reads the CPU log for the *)
(* result of the job.  Its state, declared here for the initial states of  *)
(* every process of this module; its steps come after tracie's.            *)
(***************************************************************************)
VARIABLES
    servo_pc,       \* "main", "boot" (first loop of run), "test" (second loop),
                    \* "exited"
    retval,         \* main()'s retval, -1 before the first run() returned
    tftp_failures,  \* run()'s tftp_failures
    cpu_eof,        \* the CPU serial log has ended
    cpu_line,       \* the line of the CPU log read last
    ec_written,     \* history: the strings written to the EC
    cpu_written,    \* history: the strings written to the CPU console
    retvals,        \* history: what each run() returned, in order
    seen,           \* history: the lines the second loop of this run() has read
    bulks,          \* history: the bulk read errors the second loop of this
                    \* run() has read
    servo_status    \* the exit status of the process, -1 while it runs

servo_vars == <<servo_pc, retval, tftp_failures, cpu_eof, cpu_line, ec_written,
                cpu_written, retvals, seen, bulks, servo_status>>

NoLine == "<none>"

\* main() has parsed its arguments and built the CrosServoRun.
ServoInit ==
    /\ servo_pc = "main"
    /\ retval = -1
    /\ tftp_failures = 0
    /\ cpu_eof = FALSE
    /\ cpu_line = NoLine
    /\ ec_written = <<>>
    /\ cpu_written = <<>>
    /\ retvals = <<>>
    /\ seen = {}
    /\ bulks = 0
    /\ servo_status = -1

(***************************************************************************)
(* State of the freedreno log parser                                       *)
(***************************************************************************)
VARIABLES
    parser_pc,      \* "loop", "done" or "raised" (uncaught exception)
    lines,          \* the lines of the log the loop has gone through so far
    times,          \* which list the next ELAPSED value goes to, or None
    times_blit,     \* the times of the blits of the frame, in ns
    times_sysmem,   \* the times of the sysmem passes of the frame, in ns
    times_gmem,     \* the times of the gmem passes of the frame, in ns
    printed         \* what was printed, in order

parser_vars == <<parser_pc, lines, times, times_blit, times_sysmem, times_gmem,
                 printed>>

\* main() of the log parser down to the loop over the lines.
ParserInit ==
    /\ parser_pc = "loop"
    /\ lines = <<>>
    /\ times = None
    /\ times_blit = <<>>
    /\ times_sysmem = <<>>
    /\ times_gmem = <<>>
    /\ printed = <<>>

(***************************************************************************)
(* State of gen_calendar_entries                                           *)
(***************************************************************************)
VARIABLES
    calendar_pc,    \* "start", "returned" or "raised" (uncaught exception)
    called,         \* the function that was called, None before the call
    VERSION,        \* the VERSION file: <major>.<minor>.0-devel
    manager,        \* args.manager
    CALENDAR_CSV,   \* the rows of docs/release-calendar.csv
    original,       \* history: the rows of the calendar before the call
    date,           \* what _calculate_release_start returned, None before
    committed       \* the messages of the commits made

calendar_vars == <<calendar_pc, called, VERSION, manager, CALENDAR_CSV, original,
                   date, committed>>

\* _calculate_release_start has not returned a date.
NoDate == [error |-> "not called"]

\* gen_calendar_entries is not running.
CalendarOff ==
    /\ calendar_pc = "off"
    /\ called = None
    /\ VERSION = [major |-> <<"2", "1">>, minor |-> <<"0">>]
    /\ manager = "Dylan Baker"
    /\ CALENDAR_CSV = <<>>
    /\ original = <<>>
    /\ date = NoDate
    /\ committed = <<>>

\* The state of the processes other than tracie.
other_vars == <<servo_vars, parser_vars, calendar_vars>>
OthersInit == ServoInit /\ ParserInit /\ CalendarOff

(***************************************************************************)
(* State of tracie                                                         *)
(***************************************************************************)
VARIABLES
    y,            \* the manifest as loaded by yaml.safe_load
    device_name,  \* --device-name
    environ,      \* os.environ
    fs,           \* the file system: file name -> content
    pc,           \* "loop", "exited" (sys.exit) or "raised" (uncaught exception)
    pos,          \* <<i, j>>: the trace and expectation the loops handled last
    all_ok,       \* run()'s all_ok
    results,      \* run()'s results dict: trace path -> record
    ret,          \* what run() returned: "unset", "True" or "False"
    exit_status,  \* the process's exit status, -1 while it runs
    io,           \* history: downloads, replays, moves, uploads, writes in order
    evals,        \* history: one entry per gitlab_check_trace call that returned
    call,         \* history: the latest gitlab_check_trace call and what the
                  \* replay tool did in it
    put_status,   \* history: how the server answered the latest PUT request,
                  \* "none" before the first one
    dumps,        \* history: loop position -> what the replay tool did there
    run,          \* the number of the run of the process, from 1
    previous      \* history: how the previous run ended

tracie_vars == <<y, device_name, environ, fs, pc, pos, all_ok, results, ret,
                 exit_status, io, evals, call, put_status, dumps, run, previous>>

vars == <<tracie_vars, other_vars>>

\* y["traces-db"]["download-url"] when the manifest has a traces-db entry
project_url == IF y.has_traces_db THEN y.download_url ELSE None

\* y['traces'] or []
traces == IF y.traces_is_null THEN <<>> ELSE y.traces

Manifests ==
    { m \in [has_traces_db : BOOLEAN, download_url : {DownloadUrl},
             traces_is_null : BOOLEAN, traces : SeqsUpTo(Trace, MaxTraces)] :
        m.traces_is_null => m.traces = <<>> }

\* The trace files that may be present in ./traces-db/ before the run.
TraceStores ==
    { [f \in { TRACES_DB_PATH \o p : p \in S } |-> "trace"] : S \in SUBSET Paths }

\* os.environ: each variable of EnvVars is set to one of EnvValues or not set.
Environs == UNION { [S -> EnvValues] : S \in SUBSET EnvVars }

\* No previous run.
NoRun == [pc |-> "none", ret |-> "unset", exit_status |-> -1, results |-> <<>>,
          evals |-> <<>>, report |-> None]

Init ==
    /\ y \in Manifests
    /\ device_name \in Devices
    /\ environ \in Environs
    /\ fs \in TraceStores
    /\ pc = "loop"
    /\ pos = <<1, 0>>
    /\ all_ok = TRUE
    /\ results = <<>>
    /\ ret = "unset"
    /\ exit_status = -1
    /\ io = <<>>
    /\ evals = <<>>
    /\ call = [at |-> <<0, 0>>, d |-> NoDump]
    /\ put_status = "none"
    /\ dumps = <<>>
    /\ run = 1
    /\ previous = NoRun
    /\ OthersInit

(***************************************************************************)
(* The loops of run(): the positions after <<i, j>> in iteration order and *)
(* the first of them whose expectation names the requested device.         *)
(***************************************************************************)
Positions ==
    UNION { { <<i, j>> : j \in 1..Len(traces[i].expectations) } :
            i \in 1..Len(traces) }

After(p, q) == q[1] > p[1] \/ (q[1] = p[1] /\ q[2] > p[2])

\* mutant of selected: every expectation is checked, whatever its device
selected_any_device(q) == TRUE

\* if expectation['device'] == device_name
selected(q) == traces[q[1]].expectations[q[2]].device = device_name

Pending(p) == { q \in Positions : After(p, q) /\ selected(q) }

\* mutant of next_selected: the loops run from the end of the manifest
next_selected_from_end(p) ==
    CHOOSE q \in Pending(p) : \A r \in Pending(p) : r = q \/ After(r, q)

next_selected(p) ==
    CHOOSE q \in Pending(p) : \A r \in Pending(p) : r = q \/ After(q, r)

\* mutant of accumulate: all_ok = ok
accumulate_last_only(ok_so_far, ok) == ok

\* all_ok = all_ok and ok
accumulate(ok_so_far, ok) == ok_so_far /\ ok

\* history bookkeeping: the answer to the PUT request among events, if any
answered(events, put, before) ==
    IF \E k \in 1..Len(events) : events[k].op = "PUT" THEN put ELSE before

\* history bookkeeping: the events of one call, tagged with the loop position
Tagged(events, q) ==
    [k \in 1..Len(events) |-> [op |-> events[k].op, file |-> events[k].file, at |-> q]]

(***************************************************************************)
(* One iteration of run()'s loops that reaches gitlab_check_trace: the     *)
(* loops advance to the next expectation naming the requested device and   *)
(* the trace is checked against it.                                        *)
(***************************************************************************)
\* What the replay tool may do at loop position q: anything the first time,
\* and in a later run of the process what it did there before.
DumpsAt(q) == IF q \in DOMAIN dumps THEN {dumps[q]} ELSE DumpOutcomes

CheckTrace ==
    /\ pc = "loop"
    /\ Pending(pos) # {}
    /\ \E d \in DumpsAt(next_selected(pos)), put \in PutOutcomes :
        LET q == next_selected(pos)
            trace == traces[q[1]]
            expectation == trace.expectations[q[2]]
        IN \E r \in { gitlab_check_trace(fs, environ, project_url, device_name,
                                          trace, expectation, d, put) } :
           /\ pos' = q
           /\ call' = [at |-> q, d |-> IF r.ctl = "exit" THEN NoDump ELSE d]
           /\ dumps' = IF r.ctl = "exit" THEN dumps ELSE dict_set(dumps, q, d)
           /\ fs' = r.fs
           /\ io' = io \o Tagged(r.io, q)
           /\ put_status' = answered(r.io, put, put_status)
           /\ CASE r.ctl = "return" ->
                     /\ all_ok' = accumulate(all_ok, r.ok)
                     /\ results' = dict_update(results, r.result)
                     /\ evals' = Append(evals,
                            [at |-> q, path |-> trace.path,
                             expected |-> expectation.checksum,
                             checksum |-> r.played.checksum,
                             image_file |-> r.played.image_file,
                             log_file |-> r.played.log_file,
                             ok |-> r.ok, result |-> r.result])
                     /\ UNCHANGED <<pc, exit_status>>
                [] r.ctl = "exit" ->
                     /\ pc' = "exited"
                     /\ exit_status' = 1
                     /\ UNCHANGED <<all_ok, results, evals>>
                [] r.ctl = "raise" ->
                     /\ pc' = "raised"
                     /\ exit_status' = 1
                     /\ UNCHANGED <<all_ok, results, evals>>
    /\ UNCHANGED <<y, device_name, environ, ret, run, previous>>
    /\ UNCHANGED other_vars

(***************************************************************************)
(* The end of run() and of main: results.yml is written (and uploaded when *)
(* uploads are enabled), run() returns all_ok and the process exits.       *)
(***************************************************************************)
\* yaml.safe_dump(results): the document is represented by the mapping it denotes
yaml_safe_dump(d) == d

\* mutant of exit_code: sys.exit(all_ok), and sys.exit(True) exits with 1
exit_code_of_bool(ok) == IF ok THEN 1 ELSE 0

\* sys.exit(0 if all_ok else 1)
exit_code(ok) == IF ok THEN 0 ELSE 1

RunEnd ==
    /\ pc = "loop"
    /\ Pending(pos) = {}
    /\ \E put \in PutOutcomes :
        LET fs1 == write_file(fs, RESULTS_YML, yaml_safe_dump(results))
            io1 == <<Event("write", RESULTS_YML)>>
        IN \E upload \in
               { IF environ_get(environ, "TRACIE_UPLOAD_TO_MINIO", "0") = "1"
                 THEN upload_artifact(fs1, RESULTS_YML,
                                      <<"traces", "results.yml">>, put)
                 ELSE [raised |-> FALSE, io |-> <<>>] } :
           /\ fs' = fs1
           /\ io' = io \o Tagged(io1 \o upload.io, <<0, 0>>)
           /\ put_status' = answered(upload.io, put, put_status)
           /\ IF upload.raised
              THEN /\ pc' = "raised"
                   /\ exit_status' = 1
                   /\ ret' = ret
              ELSE /\ pc' = "exited"
                   /\ ret' = IF all_ok THEN "True" ELSE "False"
                   /\ exit_status' = exit_code(all_ok)
    /\ UNCHANGED <<y, device_name, environ, pos, all_ok, results, evals, call,
                   dumps, run, previous>>
    /\ UNCHANGED other_vars

Next == CheckTrace \/ RunEnd

Spec == Init /\ [][Next]_vars

(***************************************************************************)
(* The process run again after a run in which run() returned, in the same  *)
(* directory with the same arguments and environment: main() starts over   *)
(* on the file system the run before left behind.                          *)
(***************************************************************************)
RunAgain ==
    /\ pc = "exited" /\ ret # "unset"
    /\ run < MaxRuns
    /\ run' = run + 1
    /\ previous' = [pc |-> pc, ret |-> ret, exit_status |-> exit_status,
                    results |-> results, evals |-> evals,
                    report |-> IF RESULTS_YML \in DOMAIN fs
                               THEN fs[RESULTS_YML] ELSE None]
    /\ pc' = "loop"
    /\ pos' = <<1, 0>>
    /\ all_ok' = TRUE
    /\ results' = <<>>
    /\ ret' = "unset"
    /\ exit_status' = -1
    /\ io' = <<>>
    /\ evals' = <<>>
    /\ call' = [at |-> <<0, 0>>, d |-> NoDump]
    /\ put_status' = "none"
    /\ UNCHANGED <<y, device_name, environ, fs, dumps>>
    /\ UNCHANGED other_vars

NextTwice == CheckTrace \/ RunEnd \/ RunAgain

SpecTwice == Init /\ [][NextTwice]_vars

(***************************************************************************)
(* Vocabulary of the properties                                            *)
(***************************************************************************)
\* The expectation at position q names the requested device.
Requested(q) == traces[q[1]].expectations[q[2]].device = device_name

RequestedPositions == { q \in Positions : Requested(q) }

\* run() has returned (and main has exited with its value).
Returned == ret # "unset"

\* An evaluation passed: the replay produced a checksum and it is, as a
\* string, the manifest's checksum.
Passed(e) == e.checksum # None /\ e.checksum = e.expected

\* The replay of an evaluation failed.
ReplayFailed(e) == e.checksum = None

\* The replay succeeded and its checksum is not the manifest's.
Mismatched(e) == e.checksum # None /\ e.checksum # e.expected

Evals == { evals[k] : k \in 1..Len(evals) }

\* The record of an evaluation, as merged into the report.
Record(e) == e.result[e.path]

\* The most recent evaluation is complete and nothing has run since,
\* except the end of run().
Settled == evals # <<>> /\ call.at = evals[Len(evals)].at /\ pc # "raised"

LastEval == evals[Len(evals)]

(***************************************************************************)
(* C1: run() returns True exactly when every evaluated (trace,             *)
(* expectation) pair of the requested device passed (True when there were  *)
(* none), the pairs evaluated being exactly the expectations naming the    *)
(* device; the exit status is 0 when run() returned True and 1 otherwise.  *)
(***************************************************************************)
Thm_C1_AllOkIsConjunction ==
    /\ Returned =>
        /\ { e.at : e \in Evals } = RequestedPositions
        /\ Len(evals) = Cardinality(RequestedPositions)
        /\ (ret = "True") <=> (\A e \in Evals : Passed(e))
    /\ pc # "loop" => exit_status = (IF ret = "True" THEN 0 ELSE 1)
    /\ pc = "loop" => exit_status = -1 /\ ~Returned

Wit_C1_FailThenPass ==
    /\ Returned /\ ret = "False" /\ exit_status = 1
    /\ Len(evals) = 2
    /\ ~Passed(evals[1])
    /\ Passed(evals[2])

\* Where gitlab_check_trace files the artifacts of an evaluation:
\* ./results/<trace dir>/test/<device>/
ResultsDir(e) == RESULTS_PATH \o SubSeq(e.path, 1, Len(e.path) - 1)
                    \o <<"test", device_name>>

StoredImage(e) == ResultsDir(e) \o <<e.image_file[Len(e.image_file)]>>
StoredLog(e) == ResultsDir(e) \o <<e.log_file[Len(e.log_file)]>>

\* The I/O event op on file f happened during the evaluation at q.
Did(op, f, q) == \E k \in 1..Len(io) : io[k] = [op |-> op, file |-> f, at |-> q]

UploadsEnabled ==
    "TRACIE_UPLOAD_TO_MINIO" \in DOMAIN environ /\ environ["TRACIE_UPLOAD_TO_MINIO"] = "1"
StoreRequested ==
    "TRACIE_STORE_IMAGES" \in DOMAIN environ /\ environ["TRACIE_STORE_IMAGES"] = "1"

\* The latest call's replay rendered an image and wrote a log, and the
\* image's checksum is not the one the manifest expects.
CallMismatched ==
    /\ call.d.success /\ call.d.image # NoImage /\ call.d.log
    /\ md5_hexdigest(call.d.image) # traces[call.at[1]].expectations[call.at[2]].checksum

\* The latest call completed: it returned its (ok, result) pair.
CallReturned == evals # <<>> /\ LastEval.at = call.at

(***************************************************************************)
(* C2: an evaluation whose replay succeeds with a checksum different from  *)
(* the manifest's has its image moved into the results tree, its record    *)
(* holds the two distinct values as expected and actual, the trace and the *)
(* overall result are failing, and the run goes on: the call returns to    *)
(* the loop (the only way out of such a call is the failed upload of the   *)
(* image when uploads are enabled).                                        *)
(***************************************************************************)
Thm_C2_MismatchIsRecordedAndNotFatal ==
    /\ \A e \in Evals : Mismatched(e) =>
        /\ ~e.ok
        /\ Record(e).expected = e.expected
        /\ Record(e).actual = e.checksum
        /\ Record(e).expected # Record(e).actual
        /\ ~all_ok
        /\ Returned => ret = "False"
        /\ StoredImage(e) \in DOMAIN fs
        /\ Did("move", StoredImage(e), e.at)
    /\ (Settled /\ Mismatched(LastEval)) =>
        /\ LastEval.image_file \notin DOMAIN fs
        /\ md5_hexdigest(fs[StoredImage(LastEval)]) = LastEval.checksum
        /\ results[LastEval.path] = Record(LastEval)
    /\ CallMismatched =>
        /\ pc # "raised" => CallReturned /\ Mismatched(LastEval)
        /\ pc = "exited" => Returned
        /\ pc = "raised" => UploadsEnabled /\ io[Len(io)].op = "PUT"

Wit_C2_MismatchThenNextTrace ==
    /\ Len(evals) = 2
    /\ Mismatched(evals[1])
    /\ evals[2].at[1] = 2
    /\ ~StoreRequested
    /\ StoredImage(evals[1]) \in DOMAIN fs

(***************************************************************************)
(* C3: an evaluation whose rendered checksum is, as a string, the          *)
(* manifest's checksum is marked passing, with actual equal to expected;   *)
(* unless TRACIE_STORE_IMAGES is '1' its image is not moved into the       *)
(* results tree and its record names no image: only the log is stored.     *)
(* Passing is decided by that equality and nothing else.                   *)
(***************************************************************************)
Thm_C3_MatchPassesAndStoresOnlyLog ==
    /\ \A e \in Evals : e.ok <=> (e.checksum = e.expected)
    /\ \A e \in Evals : Passed(e) =>
        /\ e.ok
        /\ Record(e).expected = e.expected
        /\ Record(e).actual = Record(e).expected
        /\ StoredLog(e) \in DOMAIN fs
        /\ Did("move", StoredLog(e), e.at)
        /\ ~StoreRequested =>
            /\ ~Did("move", StoredImage(e), e.at)
            /\ DOMAIN Record(e) = {"expected", "actual"}
            /\ StoredImage(e) \in DOMAIN fs =>
                 \E o \in Evals : o.at # e.at /\ Did("move", StoredImage(e), o.at)
    /\ (Settled /\ Passed(LastEval) /\ ~StoreRequested) =>
        /\ LastEval.image_file \in DOMAIN fs
        /\ LastEval.log_file \notin DOMAIN fs
        /\ results[LastEval.path] = Record(LastEval)

Wit_C3_MatchLeavesImageBehind ==
    /\ Settled /\ Passed(LastEval) /\ ~StoreRequested
    /\ StoredLog(LastEval) \in DOMAIN fs
    /\ StoredImage(LastEval) \notin DOMAIN fs
    /\ LastEval.image_file \in DOMAIN fs
    /\ Returned /\ ret = "True"

(***************************************************************************)
(* C4: when the replay of a trace fails the record is exactly              *)
(* {expected: the manifest's checksum, actual: error}; the failure is not  *)
(* fatal: the call returns to the loop, the following traces are           *)
(* evaluated, and when run() ends results.yml is written with that report  *)
(* and the overall result is failing.                                      *)
(***************************************************************************)
Thm_C4_ReplayFailureIsRecordedAndNotFatal ==
    /\ \A e \in Evals : ReplayFailed(e) =>
        /\ ~e.ok
        /\ Record(e) = [expected |-> e.expected, actual |-> "error"]
        /\ e.expected = traces[e.at[1]].expectations[e.at[2]].checksum
        /\ ~all_ok
        /\ Returned =>
            /\ ret = "False" /\ exit_status = 1
            /\ RESULTS_YML \in DOMAIN fs
            /\ fs[RESULTS_YML] = results
            /\ { o.at : o \in Evals } = RequestedPositions
    /\ (Settled /\ ReplayFailed(LastEval)) =>
        results[LastEval.path] = Record(LastEval)
    /\ (call.at # <<0, 0>> /\ ~call.d.success /\ pc # "loop") =>
        \/ pc = "exited" /\ ~Returned /\ call.d = NoDump /\ ~CallReturned
        \/ CallReturned /\ ReplayFailed(LastEval)
             /\ \/ pc = "exited" /\ Returned
                \/ pc = "raised" /\ UploadsEnabled
                     /\ io[Len(io)] = [op |-> "PUT", file |-> RESULTS_YML, at |-> <<0, 0>>]
    /\ (call.at # <<0, 0>> /\ ~call.d.success /\ pc = "loop") =>
        CallReturned /\ ReplayFailed(LastEval)

Wit_C4_ReplayFailsThenNextTrace ==
    /\ Returned
    /\ Len(evals) = 2
    /\ ReplayFailed(evals[1])
    /\ Passed(evals[2])
    /\ evals[2].at[1] = 2
    /\ fs[RESULTS_YML] = results

(***************************************************************************)
(* C5: a trace whose expectations all name other devices is never handed   *)
(* to gitlab_check_trace (no resolve, download or replay), contributes no  *)
(* record to the report, and leaves the run what it is for the manifest    *)
(* without that trace: the same evaluations in the same order and the      *)
(* same overall result.                                                    *)
(***************************************************************************)
Skipped(i) ==
    \A j \in 1..Len(traces[i].expectations) :
        traces[i].expectations[j].device # device_name

\* The manifest's traces without the skipped ones.
Unskipped == SelectSeq(traces, LAMBDA t :
                 \E j \in 1..Len(t.expectations) : t.expectations[j].device = device_name)

\* The (path, checksum) pairs a trace list asks to check for the device, in order.
PairsOf(t) ==
    LET mine == SelectSeq(t.expectations, LAMBDA x : x.device = device_name)
    IN [k \in 1..Len(mine) |-> <<t.path, mine[k].checksum>>]

RECURSIVE PairsOfAll(_)
PairsOfAll(ts) == IF ts = <<>> THEN <<>> ELSE PairsOf(Head(ts)) \o PairsOfAll(Tail(ts))

EvaluatedPairs == [k \in 1..Len(evals) |-> <<evals[k].path, evals[k].expected>>]

Thm_C5_OtherDeviceTraceIsSkipped ==
    /\ \A i \in 1..Len(traces) : Skipped(i) =>
        /\ call.at[1] # i
        /\ \A e \in Evals : e.at[1] # i
        /\ \A k \in 1..Len(io) : io[k].at[1] # i
        /\ traces[i].path \in DOMAIN results =>
             \E e \in Evals : e.path = traces[i].path /\ e.at[1] # i
    /\ Returned =>
        /\ EvaluatedPairs = PairsOfAll(Unskipped)
        /\ (ret = "True") <=> (\A e \in Evals : Passed(e))

Wit_C5_SkippedBetweenEvaluated ==
    /\ Returned /\ ret = "True"
    /\ Len(traces) = 2
    /\ Skipped(1) /\ traces[1].expectations # <<>>
    /\ Len(evals) = 1 /\ evals[1].at = <<2, 1>>
    /\ DOMAIN results = {traces[2].path}
    /\ traces[1].path # traces[2].path

(***************************************************************************)
(* C6: with an empty traces entry (null or an empty list) nothing is       *)
(* resolved, replayed or moved, the report is the empty mapping, it is     *)
(* what results.yml holds, and run() returns True (exit status 0).  The    *)
(* run cannot exit or fail otherwise, save for the fatal publish error:    *)
(* the upload of results.yml failing when uploads are enabled.             *)
(***************************************************************************)
Thm_C6_EmptyManifestPasses ==
    Len(traces) = 0 =>
        /\ evals = <<>> /\ call.at = <<0, 0>>
        /\ results = <<>> /\ all_ok
        /\ \A k \in 1..Len(io) : io[k].op \in {"write", "PUT"}
        /\ pc # "loop" =>
            /\ RESULTS_YML \in DOMAIN fs
            /\ DOMAIN fs[RESULTS_YML] = {}
        /\ pc = "exited" => ret = "True" /\ exit_status = 0
        /\ pc = "raised" =>
            /\ UploadsEnabled
            /\ io[Len(io)] = [op |-> "PUT", file |-> RESULTS_YML, at |-> <<0, 0>>]

Wit_C6_NullTracesPass ==
    /\ y.traces_is_null
    /\ pc = "exited" /\ ret = "True" /\ exit_status = 0
    /\ DOMAIN fs[RESULTS_YML] = {}

\* Where the log of an evaluation belongs in the results tree:
\* ./results/<trace dir>/test/<device>/<trace name>.log
LogInResults(path) ==
    RESULTS_PATH \o SubSeq(path, 1, Len(path) - 1) \o <<"test", device_name>>
        \o <<path[Len(path)] \o ".log">>

(***************************************************************************)
(* C7, as claimed: for every evaluated pair, passing or failing, the log   *)
(* is in the results tree under <trace dir>/test/<device>/, so every       *)
(* record of the report has its log there.                                 *)
(***************************************************************************)
Cex_C7_LogForEveryRecord ==
    /\ \A e \in Evals : LogInResults(e.path) \in DOMAIN fs
    /\ \A p \in DOMAIN results : LogInResults(p) \in DOMAIN fs

(***************************************************************************)
(* C7, amended: for every evaluated pair whose replay succeeded, whether   *)
(* the checksum matched or not, the log is moved (not copied) into the     *)
(* results tree under <trace dir>/test/<device>/; every record of the      *)
(* report whose actual is a checksum has its log there.  An evaluation     *)
(* whose replay failed moves nothing.                                      *)
(***************************************************************************)
Thm_C7_LogMovedWhenReplaySucceeded ==
    /\ \A e \in Evals : ~ReplayFailed(e) =>
        /\ StoredLog(e) = LogInResults(e.path)
        /\ LogInResults(e.path) \in DOMAIN fs
        /\ Did("move", LogInResults(e.path), e.at)
    /\ \A e \in Evals : ReplayFailed(e) =>
        \A k \in 1..Len(io) : io[k].at = e.at => io[k].op # "move"
    /\ \A p \in DOMAIN results :
        results[p].actual # "error" => LogInResults(p) \in DOMAIN fs
    /\ (Settled /\ ~ReplayFailed(LastEval)) =>
        LastEval.log_file \notin DOMAIN fs

Wit_C7_LogsOfPassAndFail ==
    /\ Returned
    /\ Len(evals) = 2
    /\ Passed(evals[1]) /\ Mismatched(evals[2])
    /\ evals[1].path # evals[2].path
    /\ LogInResults(evals[1].path) \in DOMAIN fs
    /\ LogInResults(evals[2].path) \in DOMAIN fs
    /\ evals[1].log_file \notin DOMAIN fs
    /\ evals[2].log_file \notin DOMAIN fs

(***************************************************************************)
(* C8: the rendered image of an evaluation is moved into the results tree  *)
(* if and only if the comparison failed or TRACIE_STORE_IMAGES is '1';     *)
(* with TRACIE_STORE_IMAGES='1' the image of every successfully replayed   *)
(* trace is stored, also when every checksum matches and the run passes.   *)
(***************************************************************************)
Thm_C8_ImageStoredIffFailedOrRequested ==
    /\ \A e \in Evals : ~ReplayFailed(e) =>
        /\ Did("move", StoredImage(e), e.at) <=> (Mismatched(e) \/ StoreRequested)
        /\ Did("move", StoredImage(e), e.at) => StoredImage(e) \in DOMAIN fs
    /\ (Settled /\ ~ReplayFailed(LastEval)) =>
        /\ LastEval.image_file \notin DOMAIN fs <=>
               (Mismatched(LastEval) \/ StoreRequested)
        /\ (Mismatched(LastEval) \/ StoreRequested) =>
               md5_hexdigest(fs[StoredImage(LastEval)]) = LastEval.checksum

Wit_C8_AllMatchImagesStoredOnRequest ==
    /\ StoreRequested
    /\ Returned /\ ret = "True"
    /\ Len(evals) = 2
    /\ evals[1].path # evals[2].path
    /\ \A e \in Evals : StoredImage(e) \in DOMAIN fs /\ e.image_file \notin DOMAIN fs

(***************************************************************************)
(* C9, as claimed: the record of every evaluated trace that fails holds    *)
(* an image entry.                                                         *)
(***************************************************************************)
Cex_C9_ImageEntryOnEveryFailure ==
    \A e \in Evals : ~e.ok => "image" \in DOMAIN Record(e)

(***************************************************************************)
(* C9, amended: the record of every evaluated trace that fails by a        *)
(* checksum mismatch holds an image entry, the path relative to the        *)
(* results directory of the stored rendered image; the record of a trace   *)
(* whose replay failed holds no image entry.                               *)
(***************************************************************************)
Thm_C9_ImageEntryOnMismatch ==
    /\ \A e \in Evals : Mismatched(e) =>
        /\ "image" \in DOMAIN Record(e)
        /\ RESULTS_PATH \o Record(e).image = StoredImage(e)
        /\ RESULTS_PATH \o Record(e).image \in DOMAIN fs
    /\ \A e \in Evals : ReplayFailed(e) => "image" \notin DOMAIN Record(e)
    /\ (Settled /\ Mismatched(LastEval)) =>
        /\ "image" \in DOMAIN results[LastEval.path]
        /\ md5_hexdigest(fs[RESULTS_PATH \o results[LastEval.path].image])
              = results[LastEval.path].actual

Wit_C9_MismatchRecordNamesImage ==
    /\ Settled /\ Mismatched(LastEval)
    /\ ~StoreRequested
    /\ RESULTS_PATH \o results[LastEval.path].image \in DOMAIN fs

(***************************************************************************)
(* C10: every record of the report, and of the results.yml written from    *)
(* it, holds an expected entry, the manifest checksum of an evaluated      *)
(* expectation of that trace path, and an actual entry, a computed         *)
(* checksum or the string 'error'; so does the record every path through   *)
(* gitlab_check_trace returns.                                             *)
(***************************************************************************)
ComputedChecksums == { md5_hexdigest(px) : px \in Pixels }

WellFormed(record, path) ==
    /\ {"expected", "actual"} \subseteq DOMAIN record
    /\ \E q \in RequestedPositions :
         /\ traces[q[1]].path = path
         /\ traces[q[1]].expectations[q[2]].checksum = record.expected
    /\ record.actual \in ComputedChecksums \cup {"error"}

Thm_C10_RecordsHoldExpectedAndActual ==
    /\ \A p \in DOMAIN results : WellFormed(results[p], p)
    /\ \A e \in Evals :
        /\ DOMAIN e.result = {e.path}
        /\ WellFormed(Record(e), e.path)
        /\ Record(e).expected = e.expected
        /\ Record(e).actual = (IF ReplayFailed(e) THEN "error" ELSE e.checksum)
    /\ RESULTS_YML \in DOMAIN fs =>
        /\ fs[RESULTS_YML] = results
        /\ DOMAIN results = { e.path : e \in Evals }

Wit_C10_ErrorAndChecksumRecords ==
    /\ Returned
    /\ Len(evals) = 2
    /\ ReplayFailed(evals[1]) /\ Mismatched(evals[2])
    /\ Cardinality(DOMAIN fs[RESULTS_YML]) = 2

\* The trace paths evaluated so far.
EvaluatedPaths == { e.path : e \in Evals }

\* The latest evaluation of trace path p.
LatestEvalOf(p) ==
    evals[CHOOSE k \in 1..Len(evals) :
            /\ evals[k].path = p
            /\ \A m \in 1..Len(evals) : evals[m].path = p => m <= k]

TraceFile(q) == TRACES_DB_PATH \o traces[q[1]].path

\* The I/O events of kind op so far.
EventsOf(op) == { k \in 1..Len(io) : io[k].op = op }

\* The process ended in sys.exit(1) before run() returned.
ExitedEarly == pc = "exited" /\ ~Returned

(***************************************************************************)
(* C12: without a download URL, when the trace of an expectation selected  *)
(* for evaluation is not in the local store the process exits at once with *)
(* status 1: that trace is not replayed, no later trace is handled, no     *)
(* record is added and results.yml is not written.  Nothing else makes     *)
(* the process exit before run() returns.                                  *)
(***************************************************************************)
Thm_C12_MissingTraceWithoutUrlExits ==
    /\ (call.at # <<0, 0>> /\ project_url = None
            /\ TraceFile(call.at) \notin DOMAIN fs) =>
        /\ ExitedEarly
        /\ exit_status = 1
        /\ pos = call.at
        /\ \A k \in 1..Len(io) : After(io[k].at, call.at)
        /\ \A e \in Evals : After(e.at, call.at)
        /\ EventsOf("write") = {}
        /\ \A k \in 1..Len(io) : io[k].file # RESULTS_YML
        /\ RESULTS_YML \notin DOMAIN fs
    /\ ExitedEarly =>
        /\ project_url = None
        /\ TraceFile(call.at) \notin DOMAIN fs
        /\ call.d = NoDump
    /\ project_url = None =>
        \A e \in Evals : TRACES_DB_PATH \o e.path \in DOMAIN fs

Wit_C12_SecondTraceMissing ==
    /\ ExitedEarly /\ exit_status = 1
    /\ Len(traces) = 2
    /\ call.at = <<2, 1>>
    /\ Len(evals) = 1 /\ evals[1].at = <<1, 1>>
    /\ RESULTS_YML \notin DOMAIN fs

\* The files of the local trace store.
TraceFiles == { TRACES_DB_PATH \o p : p \in Paths }

\* The I/O events one step adds to the history.
NewEvents == { io'[k] : k \in (Len(io) + 1)..Len(io') }

(***************************************************************************)
(* C13: with a download URL a trace is fetched only if it is absent.  A    *)
(* step never requests a trace file that exists and leaves every existing  *)
(* trace file as it is; a step that checks a trace whose file is absent    *)
(* requests it once and the file exists afterwards.  So no trace file is   *)
(* requested twice in a run, a later evaluation of the same path does not  *)
(* fetch again, and without a URL nothing is requested at all.             *)
(***************************************************************************)
Thm_C13_FetchOnlyIfAbsent ==
    /\ [][ /\ \A f \in TraceFiles \cap DOMAIN fs :
                /\ f \in DOMAIN fs' /\ fs'[f] = fs[f]
                /\ \A ev \in NewEvents : ~(ev.op = "GET" /\ ev.file = f)
           /\ \A ev \in NewEvents : ev.op = "GET" =>
                /\ project_url # None
                /\ ev.file = TraceFile(pos') /\ ev.at = pos'
                /\ ev.file \notin DOMAIN fs
                /\ ev.file \in DOMAIN fs' /\ fs'[ev.file] = "downloaded"
           /\ (pos' # pos /\ project_url # None) =>
                /\ TraceFile(pos') \in DOMAIN fs'
                /\ TraceFile(pos') \notin DOMAIN fs =>
                     Cardinality({ k \in (Len(io) + 1)..Len(io') :
                                     io'[k].op = "GET" }) = 1
         ]_vars
    /\ [](\A k, m \in EventsOf("GET") : io[k].file = io[m].file => k = m)
    /\ [](project_url = None => EventsOf("GET") = {})

Wit_C13_SecondEvaluationDoesNotFetch ==
    /\ project_url # None
    /\ Len(evals) = 2
    /\ evals[1].path = evals[2].path
    /\ Cardinality(EventsOf("GET")) = 1
    /\ \A k \in EventsOf("GET") : io[k].at = evals[1].at
    /\ fs[TraceFile(evals[2].at)] = "downloaded"
    /\ Did("dump", TraceFile(evals[2].at), evals[2].at)

(***************************************************************************)
(* C14: when TRACIE_UPLOAD_TO_MINIO is not set or is not '1' no upload is  *)
(* attempted, whatever the manifest and whatever the evaluations give      *)
(* (passes, mismatches, replay errors): no PUT request is made for an      *)
(* image or for results.yml, and an exception that ends the run is not     *)
(* the upload's, it comes from replay().                                   *)
(***************************************************************************)
Thm_C14_NoUploadWhenDisabled ==
    ~UploadsEnabled =>
        /\ EventsOf("PUT") = {}
        /\ pc = "raised" => io[Len(io)].op = "dump" /\ call.d.success
        /\ Returned => io[Len(io)] = [op |-> "write", file |-> RESULTS_YML, at |-> <<0, 0>>]

Wit_C14_UnsetMeansNoUpload ==
    /\ "TRACIE_UPLOAD_TO_MINIO" \notin DOMAIN environ
    /\ Returned
    /\ Len(evals) = 2
    /\ Mismatched(evals[1]) /\ ReplayFailed(evals[2])
    /\ EventsOf("PUT") = {}

\* The uploads attempted during the evaluation at q.
UploadsAt(q) == { k \in EventsOf("PUT") : io[k].at = q }

\* The uploads of results.yml.
ReportUploads == { k \in EventsOf("PUT") : io[k].file = RESULTS_YML }

(***************************************************************************)
(* C15, as claimed: with uploads enabled, a run in which no trace          *)
(* mismatched performs no upload.                                          *)
(***************************************************************************)
Cex_C15_NoMismatchNoUpload ==
    (UploadsEnabled /\ Returned /\ \A e \in Evals : ~Mismatched(e)) =>
        EventsOf("PUT") = {}

(***************************************************************************)
(* C15, amended: with uploads enabled, the rendered image of an evaluation *)
(* is uploaded if and only if its replay succeeded and its checksum        *)
(* differs from the expected one, once, before it is moved; results.yml is *)
(* uploaded once at the end of every run that reaches its end, so a run in *)
(* which no trace mismatched uploads results.yml and no image.             *)
(***************************************************************************)
Thm_C15_ImageUploadedIffMismatch ==
    UploadsEnabled =>
        /\ \A e \in Evals :
            /\ UploadsAt(e.at) # {} <=> Mismatched(e)
            /\ \A k \in UploadsAt(e.at) : io[k].file = e.image_file
            /\ Cardinality(UploadsAt(e.at)) <= 1
        /\ \A k \in EventsOf("PUT") :
            \/ \E e \in Evals : e.at = io[k].at /\ Mismatched(e)
            \/ /\ pc = "raised" /\ k = Len(io) /\ io[k].at = call.at
               /\ call.at # <<0, 0>> /\ ~CallReturned
               /\ md5_hexdigest(fs[io[k].file])
                    # traces[call.at[1]].expectations[call.at[2]].checksum
            \/ io[k].file = RESULTS_YML /\ io[k].at = <<0, 0>> /\ k = Len(io)
        /\ Returned =>
            /\ Cardinality(ReportUploads) = 1
            /\ (\A e \in Evals : ~Mismatched(e)) => EventsOf("PUT") = ReportUploads

Wit_C15_OnlyTheMismatchIsUploaded ==
    /\ UploadsEnabled /\ Returned
    /\ Len(evals) = 2
    /\ Passed(evals[1]) /\ Mismatched(evals[2])
    /\ UploadsAt(evals[1].at) = {}
    /\ Cardinality(UploadsAt(evals[2].at)) = 1
    /\ Cardinality(EventsOf("PUT")) = 2

(***************************************************************************)
(* C16: an upload the server answers with an error status raises out of    *)
(* upload_artifact and ends the run: the failed request is the last thing  *)
(* the run did (no retry, no further replay), run() returns no value and   *)
(* the process fails; when the failed upload is that of a mismatched       *)
(* trace's image, that evaluation returns no record and results.yml is     *)
(* not written.                                                            *)
(***************************************************************************)
Thm_C16_FailedUploadAbortsRun ==
    /\ put_status = "error" =>
        /\ pc = "raised" /\ ~Returned /\ exit_status = 1
        /\ io[Len(io)].op = "PUT"
        /\ io[Len(io)].at # <<0, 0>> =>
            /\ io[Len(io)].at = call.at /\ ~CallReturned
            /\ \A k \in 1..Len(io) : io[k].at = call.at \/ After(io[k].at, call.at)
            /\ EventsOf("write") = {}
            /\ RESULTS_YML \notin DOMAIN fs
        /\ io[Len(io)].at = <<0, 0>> =>
            /\ io[Len(io)].file = RESULTS_YML
            /\ Pending(pos) = {}
    /\ (pc = "raised" /\ io[Len(io)].op = "PUT") => put_status = "error"
    /\ \A k, m \in EventsOf("PUT") :
        (io[k].file = io[m].file /\ io[k].at = io[m].at) => k = m

Wit_C16_ImageUploadFailsBeforeNextTrace ==
    /\ put_status = "error"
    /\ call.at = <<1, 1>>
    /\ Pending(pos) # {}
    /\ evals = <<>>
    /\ RESULTS_YML \notin DOMAIN fs

(***************************************************************************)
(* The JUnit report the tests read (tests/test.py): results/junit.xml, a   *)
(* testsuites element with one testsuite per run, named after the manifest *)
(* file and the device.  A document is a record [tag, testsuites], a       *)
(* testsuite [name, testcases], a testcase [name, classname] with a        *)
(* failure entry, the set of the lines of its text, when it failed.        *)
(***************************************************************************)
JUNIT_XML == RESULTS_PATH \o <<"junit.xml">>
ManifestName == "traces.yml"
SuiteName == ManifestName \o ":" \o device_name

\* The project and the job of the CI environment the tests set up.
CI_PROJECT_PATH == "test-project"
CI_JOB_ID == "42"

\* https://<host>/dashboard/imagediff/<project>/<job-id>/<trace-path>
DashboardUrl(project, job, path) ==
    <<"https://tracie.freedesktop.org", "dashboard", "imagediff", project, job>> \o path

(***************************************************************************)
(* C17, as claimed: after a run for a device, results/junit.xml has root   *)
(* testsuites with exactly one testsuite named <manifest>:<device>, which  *)
(* holds exactly one testcase per trace evaluated for the device, its name *)
(* the trace path and its classname <manifest>:<device>.                   *)
(***************************************************************************)
Cex_C17_JUnitSuitePerDevice ==
    (Returned /\ evals # <<>>) =>
        /\ JUNIT_XML \in DOMAIN fs
        /\ fs[JUNIT_XML].tag = "testsuites"
        /\ Cardinality({ ts \in fs[JUNIT_XML].testsuites : ts.name = SuiteName }) = 1
        /\ \A ts \in fs[JUNIT_XML].testsuites : ts.name = SuiteName =>
            /\ { tc.name : tc \in ts.testcases } = EvaluatedPaths
            /\ Cardinality(ts.testcases) = Cardinality(EvaluatedPaths)
            /\ \A tc \in ts.testcases : tc.classname = SuiteName

(***************************************************************************)
(* C18, as claimed: in results/junit.xml a testcase carries a failure      *)
(* element if and only if its trace failed, and the text of the failure    *)
(* holds the dashboard URL of the trace for the environment's project and  *)
(* job.                                                                    *)
(***************************************************************************)
Cex_C18_FailureElementIffTraceFailed ==
    (Returned /\ \E e \in Evals : Mismatched(e)) =>
        /\ JUNIT_XML \in DOMAIN fs
        /\ \A ts \in fs[JUNIT_XML].testsuites : ts.name = SuiteName =>
            \A tc \in ts.testcases :
                /\ "failure" \in DOMAIN tc <=>
                     ~results[tc.name].actual = results[tc.name].expected
                /\ "failure" \in DOMAIN tc =>
                     DashboardUrl(CI_PROJECT_PATH, CI_JOB_ID, tc.name) \in tc.failure

\* The (path, expected, actual-or-None) triples of a run's evaluations, in order.
Outcomes(es) == [k \in 1..Len(es) |-> <<es[k].path, es[k].expected, es[k].checksum>>]

\* The run before had no mismatch.
PreviousHadNoMismatch ==
    \A k \in 1..Len(previous.evals) : ~Mismatched(previous.evals[k])

(***************************************************************************)
(* C19: with TRACIE_STORE_IMAGES not '1', when a run in which no trace     *)
(* mismatched has returned and tracie is run again on the same manifest,   *)
(* device and directory, the replay tool doing what it did before, the     *)
(* second run ends as the first did: it is not stopped by what the first   *)
(* left behind (the only other ending is the failed upload of              *)
(* results.yml), it evaluates the same pairs with the same outcomes, the   *)
(* report and results.yml have the same content and run() returns the      *)
(* same value.                                                             *)
(***************************************************************************)
Thm_C19_SecondRunGivesSameReport ==
    (run > 1 /\ ~StoreRequested /\ PreviousHadNoMismatch) =>
        /\ pc = "exited" =>
            /\ Returned
            /\ ret = previous.ret
            /\ exit_status = previous.exit_status
            /\ results = previous.results
            /\ fs[RESULTS_YML] = previous.report
            /\ Outcomes(evals) = Outcomes(previous.evals)
        /\ pc = "raised" =>
            /\ put_status = "error"
            /\ io[Len(io)].file = RESULTS_YML
            /\ results = previous.results
        /\ pc = "loop" =>
            /\ Len(evals) <= Len(previous.evals)
            /\ Outcomes(evals) = SubSeq(Outcomes(previous.evals), 1, Len(evals))

Wit_C19_SecondRunOverLeftovers ==
    /\ run = 2 /\ Returned /\ ~StoreRequested /\ PreviousHadNoMismatch
    /\ Len(evals) = 2
    /\ Passed(evals[1]) /\ ReplayFailed(evals[2])
    /\ evals[1].path # evals[2].path
    /\ fs[TraceFile(evals[1].at)] = "downloaded"
    /\ EventsOf("GET") = {}
    /\ results = previous.results /\ ret = previous.ret

\* The latest call's replay reported success and replay() found no image or
\* no log of the trace in the per-device directory.
ArtifactMissing ==
    /\ call.at # <<0, 0>>
    /\ call.d.success
    /\ \A k \in 1..Len(io) : io[k].at = call.at => io[k].op # "move"
    /\ LET trace_path == TraceFile(call.at)
           dir == test_dir(trace_path, device_name)
           file_name == os_path_split(trace_path)[2]
       IN \/ glob(fs, dir, image_names(file_name)) = {}
          \/ glob(fs, dir, log_names(file_name)) = {}

(***************************************************************************)
(* C20, as claimed: a replay that reports success and leaves no image or   *)
(* no log matching the naming convention is a replay error: the call       *)
(* returns a failing record with actual 'error', the run is not aborted    *)
(* and the overall result is failing.                                      *)
(***************************************************************************)
Cex_C20_MissingArtifactIsRecorded ==
    ArtifactMissing =>
        /\ pc # "raised"
        /\ CallReturned
        /\ Record(LastEval).actual = "error"
        /\ ~all_ok

\* The requested expectations have all been handed to gitlab_check_trace
\* and every call returned its record.
AllEvaluated == { e.at : e \in Evals } = RequestedPositions

(***************************************************************************)
(* C21, as claimed: results.yml is written exactly once per run.           *)
(***************************************************************************)
Cex_C21_WrittenExactlyOncePerRun ==
    pc # "loop" => Cardinality(EventsOf("write")) = 1

(***************************************************************************)
(* C21, amended: the report is empty at run start; a step changes it only  *)
(* by merging the record of the evaluation that just returned, it never    *)
(* loses a record; results.yml is written at most once per run, exactly    *)
(* once in every run whose loop over the traces completes, only after the  *)
(* last requested expectation has been evaluated and after every replay    *)
(* and move; what is written is the report, and neither the report nor the *)
(* file changes after the write.                                           *)
(***************************************************************************)
Thm_C21_ReportLifecycle ==
    /\ []((evals = <<>> /\ RESULTS_YML \notin DOMAIN fs) => results = <<>>)
    /\ [][ results' # results =>
             /\ pc = "loop" /\ RESULTS_YML \notin DOMAIN fs
             /\ Len(evals') = Len(evals) + 1
             /\ DOMAIN results \subseteq DOMAIN results'
             /\ \A p \in DOMAIN results' :
                  results'[p] = IF p = evals'[Len(evals')].path
                                THEN Record(evals'[Len(evals')])
                                ELSE results[p]
         ]_vars
    /\ [][ (RESULTS_YML \in DOMAIN fs) =>
             /\ results' = results
             /\ fs'[RESULTS_YML] = fs[RESULTS_YML]
             /\ io' = io
         ]_vars
    /\ [](Cardinality(EventsOf("write")) <= 1)
    /\ []((pc # "loop" /\ Pending(pos) = {} /\ AllEvaluated) =>
             Cardinality(EventsOf("write")) = 1)
    /\ [](\A k \in EventsOf("write") :
             /\ io[k].file = RESULTS_YML
             /\ AllEvaluated /\ Pending(pos) = {}
             /\ fs[RESULTS_YML] = results
             /\ \A m \in 1..Len(io) : io[m].op \in {"GET", "dump", "move"} => m < k)

Wit_C21_WrittenOnceAfterLastTrace ==
    /\ Returned
    /\ Len(evals) = 2
    /\ Cardinality(DOMAIN results) = 2
    /\ Cardinality(EventsOf("write")) = 1
    /\ Cardinality(EventsOf("dump")) = 2
    /\ fs[RESULTS_YML] = results

\* The stage of gitlab_check_trace an I/O event belongs to: resolve or
\* download, replay, filing (moves and upload).
Stage(op) == CASE op = "GET" -> 1 [] op = "dump" -> 2 [] OTHER -> 3

\* The loop position an event belongs to, the end of run() coming last.
EndOfRun == <<Len(traces) + 1, 0>>
Place(ev) == IF ev.at = <<0, 0>> THEN EndOfRun ELSE ev.at

(***************************************************************************)
(* C22: execution is sequential per trace.  In the order the I/O happened, *)
(* every event of an evaluation (download, replay, moves of log and image, *)
(* upload) comes before every event of an evaluation later in manifest     *)
(* order, so the events of two evaluations never interleave; within an     *)
(* evaluation the download precedes the replay and the replay precedes the *)
(* filing; the evaluations return in manifest order and the write of       *)
(* results.yml comes after all of them.                                    *)
(***************************************************************************)
Thm_C22_SequentialPerTrace ==
    /\ \A k, m \in 1..Len(io) : k < m =>
        \/ After(Place(io[k]), Place(io[m]))
        \/ Place(io[k]) = Place(io[m]) /\ Stage(io[k].op) <= Stage(io[m].op)
    /\ \A k, m \in 1..Len(evals) : k < m => After(evals[k].at, evals[m].at)
    /\ \A q \in RequestedPositions :
        (After(q, call.at) /\ q # call.at) => \E e \in Evals : e.at = q
    /\ Returned => AllEvaluated
    /\ \A e \in Evals :
        /\ Cardinality({ k \in EventsOf("dump") : io[k].at = e.at }) = 1
        /\ \A k \in 1..Len(io) : io[k].at = e.at => io[k].file[1] \in {"traces-db", "results"}
    /\ \A k \in 1..Len(io) : io[k].at # <<0, 0>> =>
        (io[k].at = call.at \/ After(io[k].at, call.at))

Wit_C22_TwoTracesEndToEnd ==
    /\ Returned
    /\ Len(evals) = 2
    /\ evals[1].path # evals[2].path
    /\ Mismatched(evals[1]) /\ Passed(evals[2])
    /\ Cardinality(EventsOf("GET")) = 2
    /\ Cardinality(EventsOf("move")) = 3
    /\ Len(io) >= 8

\* Where event number k of the history is, 0 when there is no such event.
IndexOf(op, f, q) ==
    IF Did(op, f, q)
    THEN CHOOSE k \in 1..Len(io) : io[k] = [op |-> op, file |-> f, at |-> q]
    ELSE 0

\* The image upload of the latest call failed.
ImageUploadFailed == put_status = "error" /\ io[Len(io)].at # <<0, 0>>

(***************************************************************************)
(* C23: for a mismatched trace with uploads enabled gitlab_check_trace     *)
(* moves the log into the results tree, then uploads the image, then moves *)
(* the image into the results tree, so the upload reads the image where    *)
(* the replay left it.  When the upload fails the log has been moved, the  *)
(* image has not, and the call adds no record to the report.               *)
(***************************************************************************)
Thm_C23_LogThenUploadThenImage ==
    /\ UploadsEnabled =>
        \A e \in Evals : Mismatched(e) =>
            /\ 0 < IndexOf("move", StoredLog(e), e.at)
            /\ IndexOf("move", StoredLog(e), e.at) < IndexOf("PUT", e.image_file, e.at)
            /\ IndexOf("PUT", e.image_file, e.at) < IndexOf("move", StoredImage(e), e.at)
            /\ e.image_file[1] = "traces-db"
            /\ \A k \in UploadsAt(e.at) : io[k].file = e.image_file
    /\ ImageUploadFailed =>
        LET q == call.at
            trace_path == TraceFile(q)
            dir == test_dir(trace_path, device_name)
            file_name == os_path_split(trace_path)[2]
            png == CHOOSE f \in glob(fs, dir, image_names(file_name)) : TRUE
        IN /\ UploadsEnabled /\ pc = "raised"
           /\ glob(fs, dir, image_names(file_name)) # {}
           /\ io[Len(io)] = [op |-> "PUT", file |-> png, at |-> q]
           /\ Len(io) > 1
           /\ io[Len(io) - 1] = [op |-> "move", file |-> LogInResults(traces[q[1]].path), at |-> q]
           /\ LogInResults(traces[q[1]].path) \in DOMAIN fs
           /\ glob(fs, dir, log_names(file_name)) = {}
           /\ ~CallReturned
           /\ DOMAIN results = EvaluatedPaths
           /\ \A p \in DOMAIN results : results[p] = Record(LatestEvalOf(p))

Wit_C23_UploadFailsBetweenTheMoves ==
    /\ ImageUploadFailed
    /\ evals = <<>> /\ results = <<>>
    /\ LogInResults(traces[call.at[1]].path) \in DOMAIN fs
    /\ \A f \in DOMAIN fs : f[1] = "results" => f = LogInResults(traces[call.at[1]].path)

(***************************************************************************)
(* C24, as claimed: for every manifest, also one that lists a trace path   *)
(* twice, run() returns False if and only if the report written to         *)
(* results.yml holds a record whose actual differs from its expected.      *)
(***************************************************************************)
Cex_C24_ResultAgreesWithReport ==
    Returned =>
        ((ret = "False") <=>
            \E p \in DOMAIN fs[RESULTS_YML] :
                fs[RESULTS_YML][p].actual # fs[RESULTS_YML][p].expected)

(***************************************************************************)
(* cros_servo_run: the lines of the CPU serial log and the steps of main() *)
(* and CrosServoRun.run().  SerialBuffer.lines() hands over the lines of   *)
(* the console one by one, in order, each line once whichever loop asks,   *)
(* and stops when the log has ended; what the board prints is not under    *)
(* the program's control, so every read draws the next line from CpuLines  *)
(* or finds the log ended.                                                 *)
(***************************************************************************)
NETBOOT_PROMPT == "load_archive: loading locale_en.bin"
KERNEL_PANIC == "---[ end Kernel panic - not syncing"
POWER_GOOD_TIMEOUT == "POWER_GOOD not seen in time"
BULK_READ_ERROR == "R8152: Bulk read error 0xffffffbf"
RESULT_PASS == "bare-metal result: pass"
RESULT_FAIL == "bare-metal result: fail"
OTHER_LINE == "[    1.000000] Booting Linux"

CpuLines == {NETBOOT_PROMPT, KERNEL_PANIC, POWER_GOOD_TIMEOUT, BULK_READ_ERROR,
             RESULT_PASS, RESULT_FAIL, OTHER_LINE}

\* What the next read of the CPU console gives: a line, or the end of the log.
EndOfLog == "<end of log>"
NextReads == IF cpu_eof THEN {EndOfLog} ELSE CpuLines \cup {EndOfLog}

\* re.match("bare-metal result: (\S*)", line): the matched group, or None
result_group(line) ==
    CASE line = RESULT_PASS -> "pass"
      [] line = RESULT_FAIL -> "fail"
      [] OTHER -> None

TFTP_FAILURE_LIMIT == 100

\* "\016", the control character N that selects the network boot
CTRL_N == "^N"

\* mutant of too_many_failures: the run gives up one error later
too_many_failures_off_by_one(n) == n > TFTP_FAILURE_LIMIT

\* if tftp_failures >= 100
too_many_failures(n) == n >= TFTP_FAILURE_LIMIT

\* mutant of retry: the loop of main() never runs again
retry_never(value) == FALSE

\* main(): the loop goes on unless retval != 2
retry(value) == value = 2

\* The tracie process is not part of a run of cros_servo_run.
TracieOff ==
    /\ y = [has_traces_db |-> FALSE, download_url |-> DownloadUrl,
            traces_is_null |-> TRUE, traces |-> <<>>]
    /\ device_name = "gl-test-device"
    /\ environ = <<>>
    /\ fs = <<>>
    /\ pc = "off"
    /\ pos = <<1, 0>>
    /\ all_ok = TRUE
    /\ results = <<>>
    /\ ret = "unset"
    /\ exit_status = -1
    /\ io = <<>>
    /\ evals = <<>>
    /\ call = [at |-> <<0, 0>>, d |-> NoDump]
    /\ put_status = "none"
    /\ dumps = <<>>
    /\ run = 1
    /\ previous = NoRun

\* what a run of cros_servo_run leaves alone
outside_servo == <<tracie_vars, parser_vars, calendar_vars>>

InitServo == ServoInit /\ TracieOff /\ ParserInit /\ CalendarOff

\* main() calls servo.run(): the EC prompt is flushed and a reboot requested.
ServoRunStart ==
    /\ servo_pc = "main"
    /\ retval = -1 \/ retry(retval)
    /\ Len(retvals) < MaxServoRuns
    /\ ec_written' = ec_written \o <<"\n", "reboot\n">>
    /\ servo_pc' = "boot"
    /\ seen' = {}
    /\ bulks' = 0
    /\ UNCHANGED <<retval, tftp_failures, cpu_eof, cpu_line, cpu_written, retvals,
                   servo_status>>
    /\ UNCHANGED outside_servo

\* The first loop of run(): read up to the netboot prompt and answer it
\* with ^N; the loop also ends when the log does.  tftp_failures = 0 follows.
ServoAwaitPrompt ==
    /\ servo_pc = "boot"
    /\ \E line \in NextReads :
        /\ cpu_line' = line
        /\ cpu_eof' = (line = EndOfLog)
        /\ IF line = NETBOOT_PROMPT
           THEN /\ cpu_written' = Append(cpu_written, CTRL_N)
                /\ servo_pc' = "test"
                /\ tftp_failures' = 0
           ELSE IF line = EndOfLog
           THEN /\ servo_pc' = "test"
                /\ tftp_failures' = 0
                /\ UNCHANGED cpu_written
           ELSE UNCHANGED <<servo_pc, tftp_failures, cpu_written>>
    /\ UNCHANGED <<retval, ec_written, retvals, seen, bulks, servo_status>>
    /\ UNCHANGED outside_servo

\* run() returns value to main().
Return(value) ==
    /\ retval' = value
    /\ retvals' = Append(retvals, value)
    /\ servo_pc' = "main"

\* One iteration of the second loop of run(), or its end.
ServoReadLine ==
    /\ servo_pc = "test"
    /\ \E line \in NextReads :
        /\ cpu_line' = line
        /\ cpu_eof' = (line = EndOfLog)
        /\ seen' = IF line = EndOfLog THEN seen ELSE seen \cup {line}
        /\ bulks' = IF line = BULK_READ_ERROR THEN bulks + 1 ELSE bulks
        /\ CASE line = EndOfLog ->
                  Return(1) /\ UNCHANGED tftp_failures
             [] line = KERNEL_PANIC ->
                  Return(1) /\ UNCHANGED tftp_failures
             [] line = POWER_GOOD_TIMEOUT ->
                  Return(2) /\ UNCHANGED tftp_failures
             [] line = BULK_READ_ERROR ->
                  /\ tftp_failures' = tftp_failures + 1
                  /\ IF too_many_failures(tftp_failures + 1)
                     THEN Return(2)
                     ELSE UNCHANGED <<retval, retvals, servo_pc>>
             [] result_group(line) # None ->
                  /\ IF result_group(line) = "pass" THEN Return(0) ELSE Return(1)
                  /\ UNCHANGED tftp_failures
             [] OTHER ->
                  UNCHANGED <<retval, retvals, servo_pc, tftp_failures>>
    /\ UNCHANGED <<ec_written, cpu_written, servo_status>>
    /\ UNCHANGED outside_servo

\* main() after the loop: power down the board and exit with retval.
ServoPowerOff ==
    /\ servo_pc = "main"
    /\ retval # -1 /\ ~retry(retval)
    /\ ec_written' = Append(ec_written, "power off\n")
    /\ servo_status' = retval
    /\ servo_pc' = "exited"
    /\ UNCHANGED <<retval, tftp_failures, cpu_eof, cpu_line, cpu_written, retvals,
                   seen, bulks>>
    /\ UNCHANGED outside_servo

NextServo == ServoRunStart \/ ServoAwaitPrompt \/ ServoReadLine \/ ServoPowerOff

SpecServo == InitServo /\ [][NextServo]_vars

(***************************************************************************)
(* Vocabulary of the claims about cros_servo_run.                          *)
(***************************************************************************)
\* how many times s was written to the EC
EcCount(s) == Cardinality({k \in 1..Len(ec_written) : ec_written[k] = s})

\* run() has returned and nothing was read since
ServoReturned == servo_pc \in {"main", "exited"} /\ retvals # <<>>

\* the lines on which run() returns whatever came before
DecisiveLines == {KERNEL_PANIC, POWER_GOOD_TIMEOUT, RESULT_PASS, RESULT_FAIL}

\* the run that has just returned never answered a netboot prompt
PromptNeverSeen == Len(cpu_written) < Len(retvals)

\* C25: main() runs the board again after every return value of 2 and stops
\* at the first other value; "power off" is written to the EC exactly once,
\* last of all, after the final run; the exit status is the final value,
\* which is 0 or 1 and never 2.
Thm_C25_RetryOnTwoThenPowerOff ==
    /\ \A k \in 1..(Len(retvals) - 1) : retvals[k] = 2
    /\ EcCount("reboot\n") = Len(retvals) + (IF servo_pc \in {"boot", "test"} THEN 1 ELSE 0)
    /\ (servo_pc = "main" /\ retval = 2 /\ Len(retvals) < MaxServoRuns)
          => (ENABLED ServoRunStart /\ ~ENABLED ServoPowerOff)
    /\ (servo_pc = "main" /\ retval \in {0, 1})
          => (ENABLED ServoPowerOff /\ ~ENABLED ServoRunStart)
    /\ servo_pc # "exited"
          => (EcCount("power off\n") = 0 /\ servo_status = -1)
    /\ servo_pc = "exited"
          => /\ EcCount("power off\n") = 1
             /\ ec_written[Len(ec_written)] = "power off\n"
             /\ Len(ec_written) = 2 * Len(retvals) + 1
             /\ retvals # <<>>
             /\ servo_status = retvals[Len(retvals)]
             /\ servo_status \in {0, 1}

Wit_C25_ThirdRunPassesThenPowerOff ==
    /\ servo_pc = "exited"
    /\ retvals = <<2, 2, 0>>
    /\ servo_status = 0
    /\ ec_written[Len(ec_written)] = "power off\n"

\* C26: run() returns on the first decisive line read after the wait for the
\* netboot prompt: 0 exactly on a "pass" result, 2 exactly on a POWER_GOOD
\* timeout or on the 100th bulk read error of that run, 1 exactly on a
\* kernel panic, another result or the end of the log, the last also when
\* the prompt never appeared; the error counter starts at 0 in each run.
Thm_C26_FirstDecisiveLineDecides ==
    /\ servo_pc = "test"
          => /\ seen \cap DecisiveLines = {}
             /\ tftp_failures = bulks
             /\ bulks < TFTP_FAILURE_LIMIT
    /\ ServoReturned
          => /\ (seen \ {cpu_line}) \cap DecisiveLines = {}
             /\ bulks <= TFTP_FAILURE_LIMIT
             /\ (bulks = TFTP_FAILURE_LIMIT) => (cpu_line = BULK_READ_ERROR)
             /\ (retval = 0) <=> (cpu_line = RESULT_PASS)
             /\ (retval = 2) <=> \/ cpu_line = POWER_GOOD_TIMEOUT
                                 \/ cpu_line = BULK_READ_ERROR /\ bulks = TFTP_FAILURE_LIMIT
             /\ (retval = 1) <=> cpu_line \in {KERNEL_PANIC, RESULT_FAIL, EndOfLog}
             /\ retval \in {0, 1, 2}
             /\ PromptNeverSeen => (retval = 1 /\ cpu_line = EndOfLog /\ seen = {})

Wit_C26_HundredthBulkErrorOfSecondRun ==
    /\ ServoReturned
    /\ retvals = <<2, 2>>
    /\ cpu_line = BULK_READ_ERROR
    /\ bulks = TFTP_FAILURE_LIMIT
    /\ OTHER_LINE \in seen

(***************************************************************************)
(* The freedreno log parser: one step per line of the log.  A line is      *)
(* known by the first of the five patterns that is found in it, in the     *)
(* order the loop tries them, and by the number the pattern captures.      *)
(***************************************************************************)
GMEM_LINE == [kind |-> "gmem", n |-> 0]          \* ": rendering 4x3 tiles"
SYSMEM_LINE == [kind |-> "sysmem", n |-> 0]      \* ": rendering sysmem 64x64"
BLIT_LINE == [kind |-> "blit", n |-> 0]          \* ": END BLIT"
EOF_LINE(nr) == [kind |-> "eof", n |-> nr]       \* "END OF FRAME <nr>"
ELAPSED_LINE(ns) == [kind |-> "elapsed", n |-> ns]  \* "ELAPSED: <ns> ns"
BLANK_LINE == [kind |-> "none", n |-> 0]         \* no pattern is found

LogLines == {GMEM_LINE, SYSMEM_LINE, BLIT_LINE, EOF_LINE(7), ELAPSED_LINE(5),
             ELAPSED_LINE(20), BLANK_LINE}

NOT_SET_YET == [text |-> "expected times to not be set yet"]

RECURSIVE sum(_)
sum(list) == IF list = <<>> THEN 0 ELSE Head(list) + sum(Tail(list))

\* the FRAME[..] line printed at the end of a frame
frame_report(frame_nr, blit, sysmem, gmem) ==
    [frame_nr |-> frame_nr,
     blits |-> Len(blit), blit_ns |-> sum(blit),
     sysmem |-> Len(sysmem), sysmem_ns |-> sum(sysmem),
     gmem |-> Len(gmem), gmem_ns |-> sum(gmem)]

\* mutant of select: a list that is already selected stays selected
select_keeps_first(current, list) == IF current = None THEN list ELSE current

\* times = times_gmem, times = times_sysmem, times = times_blit
select(current, list) == list

\* the marker branches: warn when a list is already selected, select
marker(list) ==
    /\ printed' = IF times # None THEN Append(printed, NOT_SET_YET) ELSE printed
    /\ times' = select(times, list)
    /\ UNCHANGED <<parser_pc, times_blit, times_sysmem, times_gmem>>

\* times.append(time) on the list times refers to; on None it raises
times_append(time) ==
    CASE times = "times_blit" ->
           /\ times_blit' = Append(times_blit, time)
           /\ UNCHANGED <<parser_pc, times_sysmem, times_gmem>>
      [] times = "times_sysmem" ->
           /\ times_sysmem' = Append(times_sysmem, time)
           /\ UNCHANGED <<parser_pc, times_blit, times_gmem>>
      [] times = "times_gmem" ->
           /\ times_gmem' = Append(times_gmem, time)
           /\ UNCHANGED <<parser_pc, times_blit, times_sysmem>>
      [] OTHER ->
           /\ parser_pc' = "raised"
           /\ UNCHANGED <<times_blit, times_sysmem, times_gmem>>

\* what a run of the log parser leaves alone
outside_parser == <<tracie_vars, servo_vars, calendar_vars>>

\* One iteration of the loop over the lines.
ParserLine ==
    /\ parser_pc = "loop"
    /\ Len(lines) < MaxLogLines
    /\ \E line \in LogLines :
        /\ lines' = Append(lines, line)
        /\ CASE line.kind = "gmem" -> marker("times_gmem")
             [] line.kind = "sysmem" -> marker("times_sysmem")
             [] line.kind = "blit" -> marker("times_blit")
             [] line.kind = "eof" ->
                  /\ printed' = Append(printed, frame_report(line.n, times_blit,
                                                             times_sysmem, times_gmem))
                  /\ times_blit' = <<>>
                  /\ times_sysmem' = <<>>
                  /\ times_gmem' = <<>>
                  /\ times' = None
                  /\ UNCHANGED parser_pc
             [] line.kind = "elapsed" ->
                  /\ times_append(line.n)
                  /\ times' = IF times = None THEN times ELSE None
                  /\ UNCHANGED printed
             [] OTHER ->
                  UNCHANGED <<parser_pc, times, times_blit, times_sysmem, times_gmem,
                              printed>>
    /\ UNCHANGED outside_parser

\* The log has no more lines: main() returns.
ParserEnd ==
    /\ parser_pc = "loop"
    /\ parser_pc' = "done"
    /\ UNCHANGED <<lines, times, times_blit, times_sysmem, times_gmem, printed>>
    /\ UNCHANGED outside_parser

InitParser == ParserInit /\ TracieOff /\ ServoInit /\ CalendarOff

NextParser == ParserLine \/ ParserEnd

SpecParser == InitParser /\ [][NextParser]_vars

(***************************************************************************)
(* Vocabulary of the claim about the log parser, read off the lines alone. *)
(***************************************************************************)
Markers == {"gmem", "sysmem", "blit"}

\* every ELAPSED line has a marker line before it with no ELAPSED or END OF
\* FRAME line in between
WellFormedLog ==
    \A k \in 1..Len(lines) :
        lines[k].kind = "elapsed"
            => \E j \in 1..(k - 1) :
                  /\ lines[j].kind \in Markers
                  /\ \A i \in (j + 1)..(k - 1) : lines[i].kind \notin {"elapsed", "eof"}

\* the kind of the latest marker line before line k, None without one
MarkerBefore(k) ==
    LET ms == {j \in 1..(k - 1) : lines[j].kind \in Markers}
    IN  IF ms = {} THEN None
        ELSE lines[CHOOSE j \in ms : \A i \in ms : i <= j].kind

\* the first line after the latest END OF FRAME line before line k
FrameStart(k) ==
    LET es == {j \in 1..(k - 1) : lines[j].kind = "eof"}
    IN  IF es = {} THEN 1 ELSE 1 + (CHOOSE j \in es : \A i \in es : i <= j)

\* the ELAPSED values of lines a..b whose latest marker is mk, in order
RECURSIVE ElapsedIn(_, _, _)
ElapsedIn(a, b, mk) ==
    IF b < a THEN <<>>
    ELSE IF lines[b].kind = "elapsed" /\ MarkerBefore(b) = mk
         THEN Append(ElapsedIn(a, b - 1, mk), lines[b].n)
         ELSE ElapsedIn(a, b - 1, mk)

\* what the END OF FRAME line e has to report
ReportAt(e) ==
    LET a == FrameStart(e)
        blit == ElapsedIn(a, e, "blit")
        sysmem == ElapsedIn(a, e, "sysmem")
        gmem == ElapsedIn(a, e, "gmem")
    IN  [frame_nr |-> lines[e].n,
         blits |-> Len(blit), blit_ns |-> sum(blit),
         sysmem |-> Len(sysmem), sysmem_ns |-> sum(sysmem),
         gmem |-> Len(gmem), gmem_ns |-> sum(gmem)]

\* the reports of the END OF FRAME lines among lines 1..b, in order
RECURSIVE ReportsUpTo(_)
ReportsUpTo(b) ==
    IF b = 0 THEN <<>>
    ELSE IF lines[b].kind = "eof" THEN Append(ReportsUpTo(b - 1), ReportAt(b))
         ELSE ReportsUpTo(b - 1)

\* the FRAME[..] lines among what was printed
IsFrameReport(p) == "frame_nr" \in DOMAIN p
FramesPrinted == SelectSeq(printed, IsFrameReport)

\* the list a marker line selects, None when the latest line that is not
\* blank is no marker
PendingSelection ==
    LET ks == {k \in 1..Len(lines) : lines[k].kind # "none"}
    IN  IF ks = {} THEN None
        ELSE LET last == lines[CHOOSE k \in ks : \A i \in ks : i <= k].kind
             IN  IF last \in Markers THEN "times_" \o last ELSE None

\* C27: in a log where every ELAPSED line follows a marker line with no
\* ELAPSED or END OF FRAME line in between, each ELAPSED value goes to exactly
\* one list, the one of the latest marker, and each END OF FRAME line
\* reports the counts and sums gathered since the previous one and then
\* empties the three lists and the pending selection.
Thm_C27_ElapsedGoesToSelectedList ==
    WellFormedLog =>
        LET a == FrameStart(Len(lines) + 1)
            n == Len(lines)
        IN  /\ parser_pc # "raised"
            /\ times_gmem = ElapsedIn(a, n, "gmem")
            /\ times_sysmem = ElapsedIn(a, n, "sysmem")
            /\ times_blit = ElapsedIn(a, n, "blit")
            /\ Len(times_gmem) + Len(times_sysmem) + Len(times_blit)
                 = Cardinality({k \in a..n : lines[k].kind = "elapsed"})
            /\ times = PendingSelection
            /\ FramesPrinted = ReportsUpTo(n)
            /\ (n > 0 /\ lines[n].kind = "eof")
                 => (times_gmem = <<>> /\ times_sysmem = <<>> /\ times_blit = <<>>
                     /\ times = None)

Wit_C27_TwoFramesTwoLists ==
    /\ WellFormedLog
    /\ parser_pc = "done"
    /\ lines = <<GMEM_LINE, ELAPSED_LINE(5), BLIT_LINE, ELAPSED_LINE(20), EOF_LINE(7),
                 EOF_LINE(7)>>
    /\ printed = <<frame_report(7, <<20>>, <<>>, <<5>>), frame_report(7, <<>>, <<>>, <<>>)>>

(***************************************************************************)
(* gen_calendar_entries: texts are sequences of characters, so that what   *)
(* the f-string builds is what date.fromisoformat has to parse; dates are  *)
(* [year, month, day] records of the proleptic Gregorian calendar.         *)
(***************************************************************************)
DigitChars == <<"0", "1", "2", "3", "4", "5", "6", "7", "8", "9">>

IsDigit(c) == \E i \in 1..Len(DigitChars) : DigitChars[i] = c

DigitValue(c) == (CHOOSE i \in 1..Len(DigitChars) : DigitChars[i] = c) - 1

\* int(text) of a text of digits
RECURSIVE int(_)
int(text) ==
    IF text = <<>> THEN 0
    ELSE 10 * int(SubSeq(text, 1, Len(text) - 1)) + DigitValue(text[Len(text)])

\* str(n), the decimal digits of n without padding
RECURSIVE str(_)
str(n) ==
    IF n < 10 THEN <<DigitChars[n + 1]>>
    ELSE Append(str(n \div 10), DigitChars[(n % 10) + 1])

\* n in at least width digits, as %0<width>d
RECURSIVE zero_padded(_, _)
zero_padded(n, width) ==
    IF Len(str(n)) >= width THEN str(n)
    ELSE <<"0">> \o zero_padded(n, width - 1)

\* the characters of a text as one string
RECURSIVE Join(_)
Join(text) == IF text = <<>> THEN "" ELSE Head(text) \o Join(Tail(text))

ValueError == [error |-> "ValueError"]

IsDate(d) == "year" \in DOMAIN d

is_leap(year) == year % 4 = 0 /\ (year % 100 # 0 \/ year % 400 = 0)

days_in_month(year, month) ==
    IF month = 2 THEN (IF is_leap(year) THEN 29 ELSE 28)
    ELSE IF month \in {4, 6, 9, 11} THEN 30 ELSE 31

\* the days of the months of year before month
RECURSIVE days_before_month(_, _)
days_before_month(year, month) ==
    IF month = 1 THEN 0
    ELSE days_before_month(year, month - 1) + days_in_month(year, month - 1)

\* the days of the years before year
days_before_year(year) ==
    LET yy == year - 1
    IN  yy * 365 + (yy \div 4) - (yy \div 100) + (yy \div 400)

\* date.toordinal(): 0001-01-01, a Monday, is day 1
toordinal(d) == days_before_year(d.year) + days_before_month(d.year, d.month) + d.day

\* date.isoweekday(): Monday is 1, Wednesday is 3, Sunday is 7
isoweekday(d) == ((toordinal(d) + 6) % 7) + 1

\* date.fromisoformat(text): YYYY-MM-DD and nothing else
fromisoformat(text) ==
    IF /\ Len(text) = 10
       /\ text[5] = "-" /\ text[8] = "-"
       /\ \A i \in {1, 2, 3, 4, 6, 7, 9, 10} : IsDigit(text[i])
    THEN LET year == int(SubSeq(text, 1, 4))
             month == int(SubSeq(text, 6, 7))
             day == int(SubSeq(text, 9, 10))
         IN  IF /\ year >= 1
                /\ month \in 1..12
                /\ day >= 1 /\ day <= days_in_month(year, month)
             THEN [year |-> year, month |-> month, day |-> day]
             ELSE ValueError
    ELSE ValueError

\* date.isoformat()
isoformat(d) ==
    zero_padded(d.year, 4) \o <<"-">> \o zero_padded(d.month, 2) \o <<"-">>
        \o zero_padded(d.day, 2)

\* date.replace(day=day)
replace_day(d, day) ==
    IF day >= 1 /\ day <= days_in_month(d.year, d.month)
    THEN [d EXCEPT !.day = day]
    ELSE ValueError

\* date + datetime.timedelta(days=days), for at most four weeks
add_days(d, days) ==
    LET dim == days_in_month(d.year, d.month)
    IN  IF d.day + days <= dim THEN [d EXCEPT !.day = d.day + days]
        ELSE IF d.month < 12
             THEN [year |-> d.year, month |-> d.month + 1, day |-> d.day + days - dim]
             ELSE [year |-> d.year + 1, month |-> 1, day |-> d.day + days - dim]

\* [1, 4, 7, 10]
QuarterMonths == <<1, 4, 7, 10>>

\* f'20{major}-0{[1, 4, 7, 10][int(minor)]}-01'
quarter_text(major, minor) ==
    <<"2", "0">> \o major \o <<"-", "0">> \o str(QuarterMonths[int(minor) + 1])
        \o <<"-", "0", "1">>

\* _calculate_release_start(major, minor): the date, or the exception raised
calculate_release_start(major, minor) ==
    LET quarter == fromisoformat(quarter_text(major, minor))
    IN  IF ~IsDate(quarter) THEN quarter
        ELSE LET day == isoweekday(quarter)
             IN  IF day > 3
                 THEN replace_day(quarter, quarter.day - day + 3 + 14)
                 ELSE IF day < 3
                 THEN LET moved == replace_day(quarter, quarter.day + 3 - day)
                      IN  replace_day(moved, moved.day + 14)
                 ELSE replace_day(quarter, quarter.day + 14)

OR_FINAL(series) == "Or " \o series \o ".0 final."

\* csv.writer writes None as the empty field
csv_field(value) == IF value = None THEN "" ELSE value

csv_row(row) == [i \in 1..Len(row) |-> csv_field(row[i])]

\* the four rows release_candidate writes after the existing ones
rc_rows(major, minor, start, who) ==
    LET series == Join(major) \o "." \o Join(minor)
        rc(row) == series \o ".0-rc" \o Join(str(row))
    IN  << csv_row(<<series, Join(isoformat(start)), rc(1), who>>),
           csv_row(<<None, Join(isoformat(add_days(start, 7))), rc(2), who>>),
           csv_row(<<None, Join(isoformat(add_days(start, 14))), rc(3), who>>),
           csv_row(<<None, Join(isoformat(add_days(start, 21))), rc(4), who,
                     OR_FINAL(series)>>) >>

commit_message(major, minor) ==
    "docs: Add calendar entries for " \o Join(major) \o "." \o Join(minor)
        \o " release candidates."

\* the rows of the calendar of the test
ORIGINAL_DATA ==
    << <<"20.3", "2021-01-13", "20.3.3", "Dylan Baker", "">>,
       <<"", "2021-01-27", "20.3.4", "Dylan Baker",
         "Last planned release of the 20.3.x series">> >>

CalendarRows == {ORIGINAL_DATA[i] : i \in 1..Len(ORIGINAL_DATA)}

Managers == {"Dylan Baker", "Eric Engestrom"}

\* VERSION holds <major>.<minor>.0-devel: a two-digit year and a quarter
Versions ==
    { [major |-> <<a, b>>, minor |-> <<q>>] :
        a \in {DigitChars[i] : i \in 1..10}, b \in {DigitChars[i] : i \in 1..10},
        q \in {"0", "1", "2", "3"} }

\* what a run of gen_calendar_entries leaves alone
outside_calendar == <<tracie_vars, servo_vars, parser_vars>>

InitCalendar ==
    /\ calendar_pc = "start"
    /\ called = None
    /\ VERSION \in Versions
    /\ manager \in Managers
    /\ CALENDAR_CSV \in SeqsUpTo(CalendarRows, MaxRows)
    /\ original = CALENDAR_CSV
    /\ date = NoDate
    /\ committed = <<>>
    /\ TracieOff /\ ServoInit /\ ParserInit

\* A direct call _calculate_release_start(major, minor), as the tests make.
CalculateReleaseStart ==
    /\ calendar_pc = "start"
    /\ called' = "_calculate_release_start"
    /\ \E d \in { calculate_release_start(VERSION.major, VERSION.minor) } :
        /\ date' = d
        /\ calendar_pc' = IF IsDate(d) THEN "returned" ELSE "raised"
    /\ UNCHANGED <<VERSION, manager, CALENDAR_CSV, original, committed>>
    /\ UNCHANGED outside_calendar

\* release_candidate(args): the date is computed before the calendar is
\* read and written again, and the commit comes last.
ReleaseCandidate ==
    /\ calendar_pc = "start"
    /\ called' = "release_candidate"
    /\ \E d \in { calculate_release_start(VERSION.major, VERSION.minor) } :
        /\ date' = d
        /\ IF IsDate(d)
           THEN /\ CALENDAR_CSV' = CALENDAR_CSV
                                     \o rc_rows(VERSION.major, VERSION.minor, d, manager)
                /\ committed' = Append(committed,
                                       commit_message(VERSION.major, VERSION.minor))
                /\ calendar_pc' = "returned"
           ELSE /\ calendar_pc' = "raised"
                /\ UNCHANGED <<CALENDAR_CSV, committed>>
    /\ UNCHANGED <<VERSION, manager, original>>
    /\ UNCHANGED outside_calendar

NextCalendar == CalculateReleaseStart \/ ReleaseCandidate

SpecCalendar == InitCalendar /\ [][NextCalendar]_vars

(***************************************************************************)
(* Vocabulary of the claims about gen_calendar_entries.                    *)
(***************************************************************************)
\* the year and the month the arguments name
YearOf(major) == 2000 + int(major)
MonthOf(minor) == QuarterMonths[int(minor) + 1]

\* the n-th Wednesday of a month
Wednesday(n, year, month) ==
    CHOOSE day \in (7 * n - 6)..(7 * n) :
        isoweekday([year |-> year, month |-> month, day |-> day]) = 3

\* the weekday of the 1st of the month
FirstWeekday(year, month) == isoweekday([year |-> year, month |-> month, day |-> 1])

CalledStart == called = "_calculate_release_start" /\ calendar_pc # "start"
CalledRC == called = "release_candidate" /\ calendar_pc # "start"

\* C28: _calculate_release_start returns the second Wednesday of the first
\* month of the quarter that minor selects, in year 20<major>, whatever the
\* weekday of the 1st of that month.
Cex_C28_SecondWednesdayOfQuarter ==
    CalledStart =>
        /\ calendar_pc = "returned"
        /\ IsDate(date)
        /\ date = [year |-> YearOf(VERSION.major), month |-> MonthOf(VERSION.minor),
                   day |-> Wednesday(2, YearOf(VERSION.major), MonthOf(VERSION.minor))]

\* C29: for every two-digit year and every minor in 0..3 the function
\* returns, without an error, a Wednesday of month [1, 4, 7, 10][minor] of
\* that year: the 15th when the 1st is a Wednesday, 14 days after the first
\* Wednesday of the month when the 1st is before Wednesday, 14 days after
\* the Wednesday of the week of the 1st when the 1st is after Wednesday.
Cex_C29_ReturnsWednesdayForEveryQuarter ==
    CalledStart =>
        LET year == YearOf(VERSION.major)
            month == MonthOf(VERSION.minor)
            first == FirstWeekday(year, month)
        IN  /\ calendar_pc = "returned"
            /\ IsDate(date)
            /\ date.year = year /\ date.month = month
            /\ date.day \in 1..days_in_month(year, month)
            /\ isoweekday(date) = 3
            /\ (first = 3) => (date.day = 15)
            /\ (first < 3) => (date.day = Wednesday(1, year, month) + 14)
            /\ (first > 3) => (date.day = Wednesday(1, year, month) - 7 + 14)

\* C30: release_candidate keeps the existing rows as they are, in order,
\* and appends exactly four rows, rc1 to rc4 of <major>.<minor>.0, dated at
\* the release start and every 7 days after it, each with the manager, the
\* series on the first row only and the "Or ... final." note on the last
\* row only.
Cex_C30_FourRowsAppended ==
    CalledRC =>
        LET n == Len(original)
            series == Join(VERSION.major) \o "." \o Join(VERSION.minor)
            row(k) == CALENDAR_CSV[n + k]
        IN  /\ calendar_pc = "returned"
            /\ Len(CALENDAR_CSV) = n + 4
            /\ SubSeq(CALENDAR_CSV, 1, n) = original
            /\ \A k \in 1..4 :
                  /\ row(k)[1] = (IF k = 1 THEN series ELSE "")
                  /\ row(k)[2] = Join(isoformat(add_days(date, 7 * (k - 1))))
                  /\ row(k)[3] = series \o ".0-rc" \o Join(str(k))
                  /\ row(k)[4] = manager
                  /\ Len(row(k)) = (IF k = 4 THEN 5 ELSE 4)
            /\ row(4)[5] = "Or " \o series \o ".0 final."

=============================================================================
